---- MODULE Spec2Model ----
(***************************************************************************)
(* Study-set application: the dual-backend persistence layer (database    *)
(* tables in lib/db.ts + lib/neon-db.ts, fallback store in lib/local-db), *)
(* the progress upsert, and the Learn-mode knowledge state machine.       *)
(***************************************************************************)
EXTENDS Integers, Sequences, FiniteSets, TLC

(* ------------------------------ bounds -------------------------------- *)
\* number of nanoid() values one run may draw
MaxNano == 2
\* largest value of the persistence clock (Date.now() of the store operations)
MaxClock == 1
\* number of updateStudySet calls one run may make
MaxUpdates == 1
\* largest number of items of the study set a Learn session is opened on
MaxItems == 2
\* number of answers one run of the Learn view may grade
MaxReviews == 5
\* number of mismatch resets of the Match view that may be pending at once
MaxTimeouts == 1

(* ------------------------- JavaScript values -------------------------- *)
\* a property that is absent from an object / the value undefined
Undef == "<undefined>"
\* JavaScript null and SQL NULL
Null == "<null>"

\* JavaScript falsiness of a string-valued property (x || d, !x)
Falsy(x) == x \in {"", Undef, Null}
\* x || d
OrElse(x, d) == IF Falsy(x) THEN d ELSE x
\* x ?? d
Coalesce(x, d) == IF x \in {Undef, Null} THEN d ELSE x

\* nanoid(): the k-th identifier drawn; distinct draws give distinct strings
NanoNames == <<"n1", "n2", "n3", "n4", "n5", "n6", "n7", "n8">>
nanoid(k) == NanoNames[k]

(* ----------------------------- entities ------------------------------- *)
\* StudyItem values used as inputs (id, term, definition)
Item(i, t, d) == [id |-> i, term |-> t, definition |-> d]
I1 == Item("i1", "hola", "hello")
I2 == Item("i2", "dna", "acid")
I3 == Item("i3", "sol", "sun")

\* the fields of a StudySet a caller may pass
DataFields == {"title", "description", "items", "sourceType", "sourceName"}

\* an input object: has = the properties present in it
Data(has, id, ca, ua, t, d, its, st, sn) ==
    [has |-> has, id |-> id, createdAt |-> ca, updatedAt |-> ua, title |-> t,
     description |-> d, items |-> its, sourceType |-> st, sourceName |-> sn]

\* property p of object o, undefined when absent
Prop(o, p) == IF p \in o.has THEN o[p] ELSE Undef

\* sentinel of an absent numeric property (createdAt, updatedAt)
NoTime == -1

(* ------------------------------ state --------------------------------- *)
VARIABLES
    envUrl,         \* environment: process.env.DATABASE_URL holds a value
    hasDatabase,    \* db.ts: const hasDatabase, fixed when the module loads
    isClient,       \* local-db: isClient(), window and localStorage exist
    dbDown,         \* environment: query() throws (no connection)
    lsFull,         \* environment: localStorage.setItem throws (quota)
    nano,           \* number of nanoid() values drawn so far
    now,            \* Date.now()
    study_sets,     \* table study_sets: id -> row
    study_items,    \* table study_items: rows in physical order
    user_progress,  \* table user_progress: <<study_set_id, mode>> -> row
    memSets,        \* memoryStore.studySets: key -> StudySet
    memIds,         \* memoryStore.studySetIds
    memProgress,    \* memoryStore.progress: <<studySetId, mode>> -> UserProgress
    otherTab,       \* memoryStore of a second tab over the same browser store
    lsSets,         \* localStorage entries study-set:<key>
    lsAll,          \* localStorage entry study-sets:all
    lsProgress,     \* localStorage entries progress:<studySetId>:<mode>
    last,           \* the last completed call and what it returned
    lastCreated,    \* input and result of the latest createStudySet, until a write follows
    returned,       \* ids of the entities createStudySet returned, in call order
    deleted,        \* the id of the latest deleteStudySet call, if no create followed it
    updates,        \* number of updateStudySet calls made
    saves,          \* the latest saveUserProgress call and the one before it, if for the same key
    pc,             \* concurrent saveUserProgressDb calls: where each one stands
    req,            \* concurrent saveUserProgressDb calls: the progress each one saves
    items,          \* LearnView: items (LearnItem[])
    currentIndex,   \* LearnView: currentIndex
    stage,          \* LearnView: stage
    feedback,       \* LearnView: feedback
    userInput,      \* LearnView: userInput
    isSessionComplete, \* LearnView: isSessionComplete
    effectPending,  \* LearnView: the next-item effect is scheduled (stage or items changed)
    posted,         \* LearnView: body of the latest POST /api/learning-modes/learn
    review,         \* LearnView: the last updateItemKnowledge call and next-item effect
    writeIndex,     \* WriteView: currentIndex
    checkResult,    \* WriteView: checkResult
    completedItems, \* WriteView: completedItems, item id -> {isCorrect, userAnswer}
    matchSet,       \* MatchView: studySet.items
    matchItems,     \* MatchView: items, tile id -> {matched, selected}
    selectedItem,   \* MatchView: selectedItem
    matchedPairs,   \* MatchView: matchedPairs
    timeLeft,       \* MatchView: timeLeft
    gameComplete,   \* MatchView: gameComplete
    gameWon,        \* MatchView: gameWon
    timeouts,       \* MatchView: the setTimeout callbacks that have not run yet
    matchPosted     \* MatchView: body of the latest POST /api/learning-modes/match

envVars == <<envUrl, hasDatabase, isClient, dbDown, lsFull>>
dbVars == <<study_sets, study_items, user_progress>>
memVars == <<memSets, memIds, memProgress>>
tabVars == <<otherTab>>
lsVars == <<lsSets, lsAll, lsProgress>>
obsVars == <<last, lastCreated, returned, deleted, updates, saves>>
raceVars == <<pc, req>>
learnVars == <<items, currentIndex, stage, feedback, userInput, isSessionComplete,
               effectPending,
               posted, review>>
writeVars == <<writeIndex, checkResult, completedItems>>
matchVars == <<matchSet, matchItems, selectedItem, matchedPairs, timeLeft, gameComplete,
               gameWon, timeouts, matchPosted>>
storeVars == <<envVars, tabVars, nano, dbVars, memVars, lsVars, obsVars>>
vars == <<storeVars, now, raceVars, learnVars, writeVars, matchVars>>

(* --------------------------- finite maps ------------------------------ *)
\* Map.set / an INSERT or UPDATE of the row with key k
Put(f, k, v) == [x \in (DOMAIN f) \cup {k} |-> IF x = k THEN v ELSE f[x]]
\* Map.delete / removeItem / DELETE of the row with key k
Drop(f, k) == [x \in (DOMAIN f) \ {k} |-> f[x]]
EmptyMap == [x \in {} |-> Null]

\* Array.includes
Includes(s, x) == \E i \in 1..Len(s) : s[i] = x
\* Array.filter(e => e !== x)
Without(s, x) == SelectSeq(s, LAMBDA e : e # x)
\* push x unless the array includes it
PushNew(s, x) == IF Includes(s, x) THEN s ELSE Append(s, x)

\* the results a call can have
ResEntity(e) == [kind |-> "entity", v |-> e]
ResNull == [kind |-> "null"]
ResThrow == [kind |-> "throw"]
ResBool(b) == [kind |-> "bool", v |-> b]

\* const memoryStore = { studySets: new Map(), studySetIds: [], progress: new Map() }
FreshMirror == [sets |-> EmptyMap, ids |-> << >>, progress |-> EmptyMap]

(* ---------------------- database backend (db.ts) ---------------------- *)
\* the object literal { id, createdAt: now, updatedAt: now, ...data }
StudySetOf(id, t, data) ==
    [id |-> IF "id" \in data.has THEN data.id ELSE id,
     createdAt |-> IF "createdAt" \in data.has THEN data.createdAt ELSE t,
     updatedAt |-> IF "updatedAt" \in data.has THEN data.updatedAt ELSE t,
     title |-> Prop(data, "title"),
     description |-> Prop(data, "description"),
     items |-> data.items,
     sourceType |-> Prop(data, "sourceType"),
     sourceName |-> Prop(data, "sourceName")]

\* INSERT INTO study_items, one statement per item, until one is rejected by
\* the primary key on study_items.id
RECURSIVE InsertItems(_, _, _)
InsertItems(rows, its, sid) ==
    IF its = << >> THEN [rows |-> rows, ok |-> TRUE]
    ELSE IF \E r \in 1..Len(rows) : rows[r].id = Head(its).id
         THEN [rows |-> rows, ok |-> FALSE]
         ELSE InsertItems(Append(rows, [id |-> Head(its).id, study_set_id |-> sid,
                                        term |-> Head(its).term,
                                        definition |-> Head(its).definition]),
                          Tail(its), sid)

\* createStudySetDb: the row is stored under the fresh id, the entity returned
\* is the spread object
createStudySetDb(data, id, t) ==
    LET studySet == StudySetOf(id, t, data)
        row == [title |-> studySet.title,
                description |-> OrElse(studySet.description, ""),
                created_at |-> studySet.createdAt,
                updated_at |-> studySet.updatedAt,
                source_type |-> studySet.sourceType,
                source_name |-> OrElse(studySet.sourceName, Null)]
        ins == InsertItems(study_items, studySet.items, id)
    IN  IF dbDown
        THEN [sets |-> study_sets, items |-> study_items, res |-> ResThrow]
        ELSE [sets |-> Put(study_sets, id, row), items |-> ins.rows,
              res |-> IF ins.ok THEN ResEntity(studySet) ELSE ResThrow]

\* the orders in which SELECT ... FROM study_items WHERE study_set_id = sid
\* (no ORDER BY) may return its rows
RowOrders(rows, sid) ==
    LET sel == SelectSeq(rows, LAMBDA r : r.study_set_id = sid)
        n == Len(sel)
        perms == {f \in [1..n -> 1..n] : \A i, j \in 1..n : f[i] = f[j] => i = j}
    IN  {[i \in 1..n |-> sel[f[i]]] : f \in perms}

\* getStudySetDb on given tables, with the item rows as returned
getStudySetDb(sets, id, rows) ==
    IF dbDown \/ id \notin DOMAIN sets THEN ResNull
    ELSE ResEntity([id |-> id,
                    title |-> sets[id].title,
                    description |-> sets[id].description,
                    createdAt |-> sets[id].created_at,
                    updatedAt |-> sets[id].updated_at,
                    sourceType |-> sets[id].source_type,
                    sourceName |-> sets[id].source_name,
                    items |-> [i \in 1..Len(rows) |->
                                 Item(rows[i].id, rows[i].term, rows[i].definition)]])

\* title = data.title || existing.title in the UPDATE statement
UpdatedTitle(data, existing) == OrElse(Prop(data, "title"), existing.title)

\* updateStudySetDb: tables after the call, and whether it reached the final read
updateStudySetDb(id, data, t) ==
    LET existing == getStudySetDb(study_sets, id, << >>)
        row == [title |-> UpdatedTitle(data, existing.v),
                description |-> Coalesce(Prop(data, "description"), existing.v.description),
                created_at |-> existing.v.createdAt,
                updated_at |-> t,
                source_type |-> OrElse(Prop(data, "sourceType"), existing.v.sourceType),
                source_name |-> Coalesce(Prop(data, "sourceName"), existing.v.sourceName)]
        kept == SelectSeq(study_items, LAMBDA r : r.study_set_id # id)
        ins == InsertItems(kept, data.items, id)
    IN  IF existing.kind = "null"
        THEN [sets |-> study_sets, items |-> study_items, ok |-> FALSE]
        ELSE IF "items" \in data.has
             THEN [sets |-> Put(study_sets, id, row), items |-> ins.rows, ok |-> ins.ok]
             ELSE [sets |-> Put(study_sets, id, row), items |-> study_items, ok |-> TRUE]

\* deleteStudySetDb: DELETE FROM study_sets; the foreign keys of study_items
\* and user_progress cascade
deleteStudySetDb(id) ==
    IF dbDown \/ id \notin DOMAIN study_sets
    THEN [sets |-> study_sets, items |-> study_items, progress |-> user_progress,
          res |-> ResBool(FALSE)]
    ELSE [sets |-> Drop(study_sets, id),
          items |-> SelectSeq(study_items, LAMBDA r : r.study_set_id # id),
          progress |-> [k \in {x \in DOMAIN user_progress : x[1] # id} |-> user_progress[k]],
          res |-> ResBool(TRUE)]

\* UserProgress: { ...progress, updatedAt: now }
UserProgressOf(p, t) ==
    [studySetId |-> p.studySetId, mode |-> p.mode, updatedAt |-> t,
     itemsStudied |-> p.itemsStudied, correctAnswers |-> p.correctAnswers,
     incorrectAnswers |-> p.incorrectAnswers, completedSessions |-> p.completedSessions]

\* a user_progress row with the column defaults (DEFAULT 0)
ZeroRow ==
    [updated_at |-> 0, items_studied |-> 0, correct_answers |-> 0,
     incorrect_answers |-> 0, completed_sessions |-> 0]

\* the counters a row holds after UPDATE user_progress SET ... (old row, new values)
UpdatedRow(old, p, t) ==
    [updated_at |-> t, items_studied |-> p.itemsStudied,
     correct_answers |-> p.correctAnswers, incorrect_answers |-> p.incorrectAnswers,
     completed_sessions |-> p.completedSessions]

\* UPDATE user_progress ... WHERE study_set_id = $6 AND mode = $7 RETURNING *
UpdateProgress(tbl, p, t) ==
    LET k == <<p.studySetId, p.mode>>
    IN  IF k \in DOMAIN tbl
        THEN [tbl |-> Put(tbl, k, UpdatedRow(tbl[k], p, t)), rowCount |-> 1]
        ELSE [tbl |-> tbl, rowCount |-> 0]

\* INSERT INTO user_progress: rejected by FOREIGN KEY(study_set_id) when no
\* study_sets row has the id, and by UNIQUE(study_set_id, mode) when a row exists
InsertProgress(tbl, sets, p, t) ==
    LET k == <<p.studySetId, p.mode>>
    IN  IF p.studySetId \notin DOMAIN sets THEN [tbl |-> tbl, ok |-> FALSE, why |-> "fk"]
        ELSE IF k \in DOMAIN tbl THEN [tbl |-> tbl, ok |-> FALSE, why |-> "unique"]
        ELSE [tbl |-> Put(tbl, k, UpdatedRow(ZeroRow, p, t)), ok |-> TRUE, why |-> "none"]

\* saveUserProgressDb, run without interleaving: the table after the call
\* (every error is caught and the call returns userProgress all the same)
saveUserProgressDb(p, t) ==
    LET upd == UpdateProgress(user_progress, p, t)
    IN  IF dbDown THEN user_progress
        ELSE IF upd.rowCount = 0
             THEN InsertProgress(upd.tbl, study_sets, p, t).tbl
             ELSE upd.tbl

\* getUserProgressDb
getUserProgressDb(sid, mode) ==
    LET k == <<sid, mode>>
    IN  IF dbDown \/ k \notin DOMAIN user_progress THEN ResNull
        ELSE ResEntity([studySetId |-> sid, mode |-> mode,
                        updatedAt |-> user_progress[k].updated_at,
                        itemsStudied |-> user_progress[k].items_studied,
                        correctAnswers |-> user_progress[k].correct_answers,
                        incorrectAnswers |-> user_progress[k].incorrect_answers,
                        completedSessions |-> user_progress[k].completed_sessions])

(* -------------------- fallback backend (local-db) --------------------- *)
\* JSON.stringify / JSON.parse of a stored value; ok = JSON.parse does not throw
JSONstringify(v) == [ok |-> TRUE, json |-> v]
JSONparse(s) == s.json
\* getItem returns null: the key has no entry
NoEntry == [ok |-> FALSE, json |-> Null]

\* Object.keys(localStorage).filter(...): the keys of a map in a fixed order
RECURSIVE KeysOf(_)
KeysOf(S) == IF S = {} THEN << >>
             ELSE LET k == CHOOSE x \in S : TRUE IN <<k>> \o KeysOf(S \ {k})

\* the forEach over the study-set:* keys: set(studySet.id, studySet), push the id
RECURSIVE LoadSets(_, _, _)
LoadSets(keys, sets, ids) ==
    IF keys = << >> THEN [sets |-> sets, ids |-> ids]
    ELSE LET s == lsSets[Head(keys)]
         IN  IF s.ok
             THEN LoadSets(Tail(keys), Put(sets, JSONparse(s).id, JSONparse(s)),
                           PushNew(ids, JSONparse(s).id))
             ELSE LoadSets(Tail(keys), sets, ids)

\* the forEach over the ids of study-sets:all
RECURSIVE LoadIds(_, _)
LoadIds(all, ids) ==
    IF all = << >> THEN ids ELSE LoadIds(Tail(all), PushNew(ids, Head(all)))

\* the forEach over the progress:* keys: set(key, progress)
RECURSIVE LoadProgress(_, _)
LoadProgress(keys, prog) ==
    IF keys = << >> THEN prog
    ELSE LET s == lsProgress[Head(keys)]
         IN  LoadProgress(Tail(keys), IF s.ok THEN Put(prog, Head(keys), JSONparse(s)) ELSE prog)

\* initializeFromLocalStorage: the mirror after rehydration
initializeFromLocalStorage ==
    IF ~isClient THEN [sets |-> memSets, ids |-> memIds, progress |-> memProgress]
    ELSE LET l == LoadSets(KeysOf(DOMAIN lsSets), memSets, memIds)
         IN  [sets |-> l.sets,
              ids |-> IF lsAll.ok THEN LoadIds(JSONparse(lsAll), l.ids) ELSE l.ids,
              progress |-> LoadProgress(KeysOf(DOMAIN lsProgress), memProgress)]

\* localStorage.setItem succeeds (client context, quota not exceeded)
CanSetItem == isClient /\ ~lsFull

\* a variant that rehydrates the mirror from the browser store before it writes
createStudySetLocalMerging(data, id, t) ==
    LET studySet == StudySetOf(id, t, data)
        m == initializeFromLocalStorage
        ids == PushNew(m.ids, id)
    IN  [sets |-> Put(m.sets, id, studySet), ids |-> ids,
         lsSets |-> IF CanSetItem THEN Put(lsSets, id, JSONstringify(studySet)) ELSE lsSets,
         lsAll |-> IF CanSetItem THEN JSONstringify(ids) ELSE lsAll,
         res |-> ResEntity(studySet)]

\* createStudySet of the fallback store (it does not rehydrate first)
createStudySetLocal(data, id, t) ==
    LET studySet == StudySetOf(id, t, data)
        ids == PushNew(memIds, id)
    IN  [sets |-> Put(memSets, id, studySet), ids |-> ids,
         lsSets |-> IF CanSetItem THEN Put(lsSets, id, JSONstringify(studySet)) ELSE lsSets,
         lsAll |-> IF CanSetItem THEN JSONstringify(ids) ELSE lsAll,
         res |-> ResEntity(studySet)]

\* getStudySet of the fallback store: result and mirror
getStudySetLocal(id) ==
    LET m == initializeFromLocalStorage
    IN  IF id \in DOMAIN m.sets
        THEN [sets |-> m.sets, ids |-> m.ids, progress |-> m.progress,
              res |-> ResEntity(m.sets[id])]
        ELSE IF isClient /\ id \in DOMAIN lsSets /\ lsSets[id].ok
             THEN [sets |-> Put(m.sets, id, JSONparse(lsSets[id])), ids |-> m.ids,
                   progress |-> m.progress, res |-> ResEntity(JSONparse(lsSets[id]))]
             ELSE [sets |-> m.sets, ids |-> m.ids, progress |-> m.progress, res |-> ResNull]

\* { ...existingSet, ...data, updatedAt: Date.now() }
Merge(existing, data, t) ==
    [id |-> IF "id" \in data.has THEN data.id ELSE existing.id,
     createdAt |-> IF "createdAt" \in data.has THEN data.createdAt ELSE existing.createdAt,
     updatedAt |-> t,
     title |-> IF "title" \in data.has THEN data.title ELSE existing.title,
     description |-> IF "description" \in data.has THEN data.description
                     ELSE existing.description,
     items |-> IF "items" \in data.has THEN data.items ELSE existing.items,
     sourceType |-> IF "sourceType" \in data.has THEN data.sourceType
                    ELSE existing.sourceType,
     sourceName |-> IF "sourceName" \in data.has THEN data.sourceName
                    ELSE existing.sourceName]

\* a slip: no early return, { ...null, ...data, updatedAt } is stored under the id
NotFoundLocalUpsert(g, id, data, t) ==
    LET blank == [id |-> Undef, createdAt |-> NoTime, updatedAt |-> NoTime, title |-> Undef,
                  description |-> Undef, items |-> << >>, sourceType |-> Undef,
                  sourceName |-> Undef]
    IN  [sets |-> Put(g.sets, id, Merge(blank, data, t)), ids |-> g.ids,
         progress |-> g.progress, lsSets |-> lsSets,
         res |-> ResEntity(Merge(blank, data, t))]

\* updateStudySet of the fallback store when the set was not found: return null,
\* nothing beyond the rehydration and the lookup
NotFoundLocal(g, id, data, t) ==
    [sets |-> g.sets, ids |-> g.ids, progress |-> g.progress, lsSets |-> lsSets,
     res |-> ResNull]

\* updateStudySet of the fallback store
updateStudySetLocal(id, data, t) ==
    LET g == getStudySetLocal(id)
        updatedSet == Merge(g.res.v, data, t)
    IN  IF g.res.kind = "null" THEN NotFoundLocal(g, id, data, t)
        ELSE [sets |-> Put(g.sets, id, updatedSet), ids |-> g.ids, progress |-> g.progress,
              lsSets |-> IF CanSetItem THEN Put(lsSets, id, JSONstringify(updatedSet))
                         ELSE lsSets,
              res |-> ResEntity(updatedSet)]

\* deleteStudySet of the fallback store
deleteStudySetLocal(id) ==
    LET m == initializeFromLocalStorage
        ids == Without(m.ids, id)
    IN  IF id \notin DOMAIN m.sets
        THEN [sets |-> m.sets, ids |-> m.ids, progress |-> m.progress,
              lsSets |-> lsSets, lsAll |-> lsAll, res |-> ResBool(FALSE)]
        ELSE [sets |-> Drop(m.sets, id), ids |-> ids, progress |-> m.progress,
              lsSets |-> IF isClient THEN Drop(lsSets, id) ELSE lsSets,
              lsAll |-> IF CanSetItem THEN JSONstringify(ids) ELSE lsAll,
              res |-> ResBool(TRUE)]

\* saveUserProgress of the fallback store
saveUserProgressLocal(p, t) ==
    LET m == initializeFromLocalStorage
        k == <<p.studySetId, p.mode>>
    IN  [sets |-> m.sets, ids |-> m.ids,
         progress |-> Put(m.progress, k, UserProgressOf(p, t)),
         lsProgress |-> IF CanSetItem THEN Put(lsProgress, k, JSONstringify(UserProgressOf(p, t)))
                        ELSE lsProgress]

\* getUserProgress of the fallback store
getUserProgressLocal(sid, mode) ==
    LET m == initializeFromLocalStorage
        k == <<sid, mode>>
    IN  IF k \in DOMAIN m.progress
        THEN [sets |-> m.sets, ids |-> m.ids, progress |-> m.progress,
              res |-> ResEntity(m.progress[k])]
        ELSE IF isClient /\ k \in DOMAIN lsProgress /\ lsProgress[k].ok
             THEN [sets |-> m.sets, ids |-> m.ids,
                   progress |-> Put(m.progress, k, JSONparse(lsProgress[k])),
                   res |-> ResEntity(JSONparse(lsProgress[k]))]
             ELSE [sets |-> m.sets, ids |-> m.ids, progress |-> m.progress, res |-> ResNull]

(* ------------------------------ inputs -------------------------------- *)
\* what the sample-data and debug routes pass to createStudySet: no id, no timestamps
DirectInputs ==
    {Data({"title", "description", "items", "sourceType"}, Undef, NoTime, NoTime,
          "bio", "d", <<I2>>, "manual", Undef)}

\* request bodies of POST /api/study-sets
Bodies ==
    {Data({"title", "items", "sourceName"}, Undef, NoTime, NoTime,
          "t1", Undef, <<I1>>, Undef, ""),
     Data({"id", "title", "description", "items", "sourceType", "sourceName"}, "c1",
          NoTime, NoTime, "t2", "d", <<I2, I1>>, "pdf", "f")}

\* studySetSchema.parse: the defaults of id, description, createdAt, updatedAt, sourceType
studySetSchema(body, id, t) ==
    Data((body.has \cup {"id", "description", "createdAt", "updatedAt", "sourceType"}),
         IF "id" \in body.has THEN body.id ELSE id,
         IF "createdAt" \in body.has THEN body.createdAt ELSE t,
         IF "updatedAt" \in body.has THEN body.updatedAt ELSE t,
         body.title,
         IF "description" \in body.has THEN body.description ELSE "",
         body.items,
         IF "sourceType" \in body.has THEN body.sourceType ELSE "manual",
         body.sourceName)

\* the partial objects passed to updateStudySet
Partials ==
    {Data({"title"}, Undef, NoTime, NoTime, "", Undef, << >>, Undef, Undef),
     Data({"title", "description", "sourceType", "sourceName"}, Undef, NoTime, NoTime,
          "t9", "", << >>, "pdf", ""),
     Data({"items"}, Undef, NoTime, NoTime, Undef, Undef, <<I1>>, Undef, Undef)}

\* the study set ids, modes and counters passed to saveUserProgress; "zz" is the id
\* of no study set
ProgressKeys == {<<nanoid(1), "quiz">>, <<nanoid(1), "learn">>, <<"zz", "learn">>}
CounterInputs ==
    {[itemsStudied |-> 1, correctAnswers |-> 1, incorrectAnswers |-> 0,
      completedSessions |-> 1],
     [itemsStudied |-> 2, correctAnswers |-> 1, incorrectAnswers |-> 1,
      completedSessions |-> 1]}

\* the progress object a caller passes
ProgressInput(sid, mode, c) ==
    [studySetId |-> sid, mode |-> mode, itemsStudied |-> c.itemsStudied,
     correctAnswers |-> c.correctAnswers, incorrectAnswers |-> c.incorrectAnswers,
     completedSessions |-> c.completedSessions]

\* no saveUserProgress call has been made (or the set was deleted since)
NoCounters == [itemsStudied |-> -1]
NoSaves == [key |-> <<Undef, Undef>>, prev |-> NoCounters, cur |-> NoCounters]

\* the concurrent requests that call saveUserProgressDb
Procs == {"p1", "p2"}
NoRequest == [studySetId |-> Undef]

\* no answer has been graded since the session (re)started
NoReview ==
    [n |-> 0, streak |-> 0, level |-> 0, correct |-> FALSE, newLevel |-> 0, delay |-> 0,
     due |-> {}]

\* the ids callers pass
ArgIds == {nanoid(k) : k \in 1..MaxNano} \cup {"c1"}

(* ------------------------- what is stored ----------------------------- *)
\* the study sets the fallback store holds (mirror and browser store)
StoredEntities ==
    {memSets[k] : k \in DOMAIN memSets}
        \cup {JSONparse(lsSets[k]) : k \in {x \in DOMAIN lsSets : lsSets[x].ok}}

\* some stored study set is kept under, or carries, the id
HasStoredSet(id) ==
    IF hasDatabase THEN id \in DOMAIN study_sets
    ELSE \/ id \in (DOMAIN memSets) \cup (DOMAIN lsSets)
         \/ \E e \in StoredEntities : e.id = id

(* ------------------------- store operations --------------------------- *)
\* a statement of createStudySetDb is rejected: no connection, or an item id that
\* study_items already holds (primary key)
InsertFailsDb(data, id) ==
    dbDown \/ ~InsertItems(study_items, data.items, id).ok

\* localStorage.setItem throws in the fallback store (quota exceeded)
SetItemFails == isClient /\ lsFull

\* a variant that looks the configuration value up again at every call
UseDatabaseNow == envUrl

\* export const f = hasDatabase ? fDb : localDb.f: the backend a call is routed to
UseDatabase == hasDatabase

\* createStudySet(data), the k-th nanoid() being the last one drawn before it
CreateWith(data, k) ==
    LET id == nanoid(k + 1)
        d == createStudySetDb(data, id, now)
        l == createStudySetLocal(data, id, now)
        res == IF UseDatabase THEN d.res ELSE l.res
    IN  /\ nano' = k + 1
        /\ IF UseDatabase
           THEN /\ study_sets' = d.sets
                /\ study_items' = d.items
                /\ UNCHANGED <<memSets, memIds, lsSets, lsAll>>
           ELSE /\ memSets' = l.sets
                /\ memIds' = l.ids
                /\ lsSets' = l.lsSets
                /\ lsAll' = l.lsAll
                /\ UNCHANGED <<study_sets, study_items>>
        /\ last' = [op |-> "createStudySet", id |-> id, kind |-> res.kind,
                    failed |-> IF UseDatabase THEN InsertFailsDb(data, id)
                               ELSE SetItemFails]
        /\ lastCreated' = IF res.kind = "entity"
                          THEN [valid |-> TRUE, data |-> data, ret |-> res.v, key |-> id]
                          ELSE [valid |-> FALSE]
        /\ returned' = IF res.kind = "entity" THEN Append(returned, res.v.id) ELSE returned
        /\ deleted' = Undef
        /\ UNCHANGED <<envVars, tabVars, matchVars, now, user_progress, memProgress,
                       lsProgress, saves, updates,
                       raceVars, learnVars, writeVars>>

\* POST /api/sample-data, POST /api/debug/storage: createStudySet(setData)
CreateDirect ==
    /\ nano < MaxNano
    /\ \E data \in DirectInputs : CreateWith(data, nano)

\* request bodies of POST /api/study-sets that studySetSchema rejects: no title, an
\* empty title, no items, an empty items list, an item with an empty term
BadBodies ==
    {Data({"items"}, Undef, NoTime, NoTime, Undef, Undef, <<I1>>, Undef, Undef),
     Data({"title", "items"}, Undef, NoTime, NoTime, "", Undef, <<I1>>, Undef, Undef),
     Data({"title"}, Undef, NoTime, NoTime, "t1", Undef, << >>, Undef, Undef),
     Data({"title", "items"}, Undef, NoTime, NoTime, "t1", Undef, << >>, Undef, Undef),
     Data({"title", "items"}, Undef, NoTime, NoTime, "t1", Undef,
          <<Item("i1", "", "hello")>>, Undef, Undef)}

\* studySetSchema.parse does not throw: title min(1), items min(1), term and
\* definition min(1), sourceType one of the enum
SchemaAccepts(body) ==
    /\ "title" \in body.has /\ body.title \notin {"", Undef, Null}
    /\ "items" \in body.has /\ Len(body.items) >= 1
    /\ \A i \in 1..Len(body.items) :
           body.items[i].term # "" /\ body.items[i].definition # ""
    /\ "sourceType" \in body.has => body.sourceType \in {"pdf", "manual", "ai-generated"}

\* POST /api/study-sets: the status of the response; every error, the ZodError of
\* the schema included, goes to the one catch block
PostRoute(accepted, res) ==
    IF ~accepted \/ res.kind = "throw" THEN 500 ELSE 200

\* POST /api/study-sets: studySetSchema.parse(data), then createStudySet(validatedData)
PostStudySet ==
    \E body \in Bodies \cup BadBodies :
        LET k == IF "id" \in body.has THEN nano ELSE nano + 1
        IN  IF SchemaAccepts(body)
            THEN /\ k < MaxNano
                 /\ CreateWith(studySetSchema(body, nanoid(nano + 1), now), k)
            ELSE /\ last' = [op |-> "postStudySet", accepted |-> FALSE,
                             status |-> PostRoute(FALSE, ResThrow)]
                 /\ UNCHANGED <<envVars, tabVars, matchVars, nano, now, dbVars, memVars,
                                lsVars, lastCreated,
                                returned, deleted, updates, saves, raceVars, learnVars, writeVars>>

\* GET /api/study-sets/[id]: the status of the response to what getStudySet did
GetRoute(res) ==
    IF res.kind = "throw" THEN 500
    ELSE IF res.kind = "null" THEN 404
    ELSE 200

\* getStudySet(id)
GetStudySet ==
    \E id \in ArgIds :
        /\ IF UseDatabase
           THEN /\ last' = [op |-> "getStudySet", id |-> id,
                            found |-> getStudySetDb(study_sets, id, << >>).kind = "entity",
                            status |-> GetRoute(getStudySetDb(study_sets, id, << >>))]
                /\ UNCHANGED memVars
           ELSE LET g == getStudySetLocal(id)
                IN  /\ memSets' = g.sets
                    /\ memIds' = g.ids
                    /\ memProgress' = g.progress
                    /\ last' = [op |-> "getStudySet", id |-> id,
                                found |-> g.res.kind = "entity",
                                status |-> GetRoute(g.res)]
        /\ UNCHANGED <<envVars, tabVars, matchVars, nano, now, dbVars, lsVars, lastCreated,
                       returned, deleted,
                       saves, updates, raceVars, learnVars, writeVars>>

\* updateStudySet(id, data)
UpdateWith(id, data) ==
        LET u == updateStudySetDb(id, data, now)
            l == updateStudySetLocal(id, data, now)
            before == StoredEntities
            obs(res, wrote) ==
                [op |-> "updateStudySet", id |-> id, data |-> data, res |-> res,
                 absent |-> ~HasStoredSet(id), wrote |-> wrote]
        IN  /\ updates' = updates + 1
            /\ IF UseDatabase
               THEN /\ study_sets' = u.sets
                    /\ study_items' = u.items
                    /\ \E rows \in RowOrders(u.items, id) :
                           last' = obs(IF u.ok THEN getStudySetDb(u.sets, id, rows)
                                       ELSE ResNull,
                                       u.sets # study_sets \/ u.items # study_items)
                    /\ UNCHANGED <<memVars, lsSets>>
               ELSE /\ memSets' = l.sets
                    /\ memIds' = l.ids
                    /\ memProgress' = l.progress
                    /\ lsSets' = l.lsSets
                    /\ last' = obs(l.res,
                                   \/ l.lsSets # lsSets
                                   \/ \E k \in DOMAIN l.sets : l.sets[k] \notin before)
                    /\ UNCHANGED <<study_sets, study_items>>
            /\ lastCreated' = [valid |-> FALSE]
            /\ UNCHANGED <<envVars, tabVars, matchVars, nano, now, user_progress, lsAll,
                           lsProgress, returned,
                           deleted, saves, raceVars, learnVars, writeVars>>

\* updateStudySet(id, data) with a partial object that carries neither id nor createdAt
UpdateStudySet ==
    /\ updates < MaxUpdates
    /\ \E id \in ArgIds, data \in Partials : UpdateWith(id, data)

\* request bodies of PUT /api/study-sets/[id]: the partial objects, and objects that
\* carry an id or a createdAt of their own
PutBodies ==
    Partials
        \cup {Data({"id", "title"}, "c1", NoTime, NoTime, "t9", Undef, << >>, Undef, Undef),
              Data({"createdAt"}, Undef, 9, NoTime, Undef, Undef, << >>, Undef, Undef)}

\* PUT /api/study-sets/[id]: updateStudySet(id, await req.json())
PutStudySet ==
    /\ updates < MaxUpdates
    /\ \E id \in ArgIds, body \in PutBodies : UpdateWith(id, body)

\* deleteStudySet(id)
DeleteStudySet ==
    \E id \in ArgIds :
        LET d == deleteStudySetDb(id)
            l == deleteStudySetLocal(id)
        IN  /\ IF UseDatabase
               THEN /\ study_sets' = d.sets
                    /\ study_items' = d.items
                    /\ user_progress' = d.progress
                    /\ UNCHANGED <<memVars, lsSets, lsAll>>
               ELSE /\ memSets' = l.sets
                    /\ memIds' = l.ids
                    /\ memProgress' = l.progress
                    /\ lsSets' = l.lsSets
                    /\ lsAll' = l.lsAll
                    /\ UNCHANGED dbVars
            /\ last' = [op |-> "deleteStudySet",
                        existed |-> IF UseDatabase THEN d.res.v ELSE l.res.v]
            /\ lastCreated' = [valid |-> FALSE]
            /\ deleted' = IF UseDatabase /\ dbDown THEN deleted ELSE id
            /\ saves' = IF saves.key[1] = id THEN NoSaves ELSE saves
            /\ UNCHANGED <<envVars, tabVars, matchVars, nano, now, lsProgress, returned,
                           updates, raceVars,
                           learnVars, writeVars>>

\* a page reload (or a restart of the server process): a fresh in-memory mirror
Reload ==
    /\ ~hasDatabase
    /\ memSets # EmptyMap
    /\ memSets' = EmptyMap
    /\ memIds' = << >>
    /\ memProgress' = EmptyMap
    /\ last' = [op |-> "reload"]
    /\ lastCreated' = [valid |-> FALSE]
    /\ UNCHANGED <<envVars, tabVars, matchVars, nano, now, dbVars, lsVars, returned, deleted,
                   saves, updates,
                   raceVars,
                   learnVars, writeVars>>

\* the database becomes unreachable, or reachable again
ToggleDb ==
    /\ hasDatabase
    /\ dbDown' = ~dbDown
    /\ UNCHANGED <<envUrl, hasDatabase, isClient, lsFull, tabVars, matchVars, nano, now,
                   dbVars, memVars, lsVars,
                   obsVars, raceVars, learnVars, writeVars>>

\* the browser store runs out of quota, or has room again
ToggleQuota ==
    /\ ~hasDatabase /\ isClient
    /\ lsFull' = ~lsFull
    /\ UNCHANGED <<envUrl, hasDatabase, isClient, dbDown, tabVars, matchVars, nano, now,
                   dbVars, memVars, lsVars,
                   obsVars, raceVars, learnVars, writeVars>>

\* time passes between two store calls
Tick ==
    /\ now < MaxClock
    /\ now' = now + 1
    /\ UNCHANGED <<storeVars, matchVars, raceVars, learnVars, writeVars>>

\* the configuration value of the server process is set or removed after start
ChangeEnv ==
    /\ ~isClient
    /\ envUrl' = ~envUrl
    /\ UNCHANGED <<hasDatabase, isClient, dbDown, lsFull, tabVars, matchVars, nano, now,
                   dbVars, memVars,
                   lsVars, obsVars, raceVars, learnVars, writeVars>>

\* the state when the module has loaded: empty tables, empty mirror, empty browser store
InitStore ==
    /\ envUrl \in BOOLEAN
    /\ hasDatabase = envUrl
    /\ isClient \in BOOLEAN
    /\ hasDatabase => ~isClient
    /\ dbDown = FALSE
    /\ lsFull = FALSE
    /\ nano = 0
    /\ study_sets = EmptyMap
    /\ study_items = << >>
    /\ user_progress = EmptyMap
    /\ memSets = EmptyMap
    /\ memIds = << >>
    /\ memProgress = EmptyMap
    /\ otherTab = FreshMirror
    /\ lsSets = EmptyMap
    /\ lsAll = NoEntry
    /\ lsProgress = EmptyMap
    /\ last = [op |-> "none"]
    /\ lastCreated = [valid |-> FALSE]
    /\ returned = << >>
    /\ deleted = Undef
    /\ updates = 0
    /\ saves = NoSaves

\* the views and the concurrent calls are idle
InitIdle ==
    /\ pc = [p \in Procs |-> "idle"]
    /\ req = [p \in Procs |-> NoRequest]
    /\ items = << >>
    /\ currentIndex = 0
    /\ stage = "term"
    /\ feedback = Null
    /\ userInput = ""
    /\ isSessionComplete = FALSE
    /\ effectPending = FALSE
    /\ posted = NoRequest
    /\ review = NoReview
    /\ writeIndex = 0
    /\ checkResult = ResNull
    /\ completedItems = EmptyMap

\* a tile has no id: the null of selectedItem
NoTile == << >>

\* useState(120): the seconds of a game
GameSeconds == 120

\* no Match view is mounted
InitMatchIdle ==
    /\ matchSet = << >>
    /\ matchItems = EmptyMap
    /\ selectedItem = NoTile
    /\ matchedPairs = 0
    /\ timeLeft = GameSeconds
    /\ gameComplete = FALSE
    /\ gameWon = FALSE
    /\ timeouts = {}
    /\ matchPosted = NoRequest

Init == InitStore /\ now = 0 /\ InitIdle /\ InitMatchIdle

\* creating, reading and deleting study sets, in either backend
Next ==
    \/ CreateDirect
    \/ PostStudySet
    \/ GetStudySet
    \/ DeleteStudySet
    \/ Reload

Spec == Init /\ [][Next]_vars

\* creating and updating study sets, in either backend, with storage faults
NextUpdate ==
    \/ CreateDirect
    \/ PostStudySet
    \/ UpdateStudySet
    \/ ToggleDb
    \/ Tick

SpecUpdate == Init /\ [][NextUpdate]_vars

(* ------------------------ progress operations ------------------------- *)
\* the storage write of saveUserProgress fails: no connection or a rejected INSERT in
\* the database backend, a throwing localStorage.setItem in the fallback store
SaveFails(p, t) ==
    IF UseDatabase
    THEN \/ dbDown
         \/ /\ UpdateProgress(user_progress, p, t).rowCount = 0
            /\ ~InsertProgress(user_progress, study_sets, p, t).ok
    ELSE SetItemFails

\* what saveUserProgress returns: userProgress, from the try block and from the
\* catch block alike
saveUserProgressReturn(p, t) == ResEntity(UserProgressOf(p, t))

\* updateProgress of the quiz route: the status of the response
updateProgress(body, res) ==
    IF Falsy(body.studySetId) \/ Falsy(body.mode) THEN 400
    ELSE IF res.kind = "throw" THEN 500
    ELSE 200

\* saveUserProgress(progress), run to completion
SaveUserProgress ==
    \E key \in ProgressKeys, c \in CounterInputs :
        LET sid == key[1]
            mode == key[2]
            p == ProgressInput(sid, mode, c)
            l == saveUserProgressLocal(p, now)
        IN  /\ IF UseDatabase
               THEN /\ user_progress' = saveUserProgressDb(p, now)
                    /\ UNCHANGED <<memVars, lsProgress>>
               ELSE /\ memSets' = l.sets
                    /\ memIds' = l.ids
                    /\ memProgress' = l.progress
                    /\ lsProgress' = l.lsProgress
                    /\ UNCHANGED user_progress
            /\ last' = [op |-> "saveUserProgress", failed |-> SaveFails(p, now),
                        kind |-> saveUserProgressReturn(p, now).kind,
                        status |-> updateProgress(p, saveUserProgressReturn(p, now))]
            /\ saves' = [key |-> <<sid, mode>>,
                         prev |-> IF saves.key = <<sid, mode>> THEN saves.cur ELSE NoCounters,
                         cur |-> c]
            /\ UNCHANGED <<envVars, tabVars, matchVars, nano, now, study_sets, study_items,
                           lsSets, lsAll,
                           lastCreated, returned, deleted, updates, raceVars, learnVars, writeVars>>

\* getUserProgress(studySetId, mode)
GetUserProgress ==
    \E key \in ProgressKeys :
        LET l == getUserProgressLocal(key[1], key[2])
        IN  /\ IF UseDatabase
               THEN /\ last' = [op |-> "getUserProgress"]
                    /\ UNCHANGED memVars
               ELSE /\ memSets' = l.sets
                    /\ memIds' = l.ids
                    /\ memProgress' = l.progress
                    /\ last' = [op |-> "getUserProgress"]
            /\ UNCHANGED <<envVars, tabVars, matchVars, nano, now, dbVars, lsVars, lastCreated,
                           returned,
                           deleted, updates, saves, raceVars, learnVars, writeVars>>

\* study sets and their progress records, calls run one after the other
NextProgress ==
    \/ CreateDirect
    \/ DeleteStudySet
    \/ SaveUserProgress
    \/ GetUserProgress

SpecProgress == Init /\ [][NextProgress]_vars

\* study-set calls, with the configuration value changing under the process
NextEnv ==
    \/ CreateDirect
    \/ GetStudySet
    \/ UpdateStudySet
    \/ DeleteStudySet
    \/ ChangeEnv

SpecEnv == Init /\ [][NextEnv]_vars

\* study-set calls while storage faults come and go
NextFaults ==
    \/ CreateDirect
    \/ PostStudySet
    \/ GetStudySet
    \/ ToggleDb
    \/ ToggleQuota

SpecFaults == Init /\ [][NextFaults]_vars

\* the fallback store in a browser: study-set calls, the clock and page reloads
InitReload == Init /\ ~hasDatabase /\ isClient

NextReload ==
    \/ CreateDirect
    \/ PostStudySet
    \/ UpdateStudySet
    \/ DeleteStudySet
    \/ Tick
    \/ Reload

SpecReload == InitReload /\ [][NextReload]_vars

(* --------------- concurrent saveUserProgressDb requests --------------- *)
\* a request enters saveUserProgressDb and its UPDATE statement runs
SaveUpdateStep(p) ==
    \E key \in ProgressKeys, c \in CounterInputs :
        LET in == ProgressInput(key[1], key[2], c)
            upd == UpdateProgress(user_progress, in, now)
        IN  /\ pc[p] = "idle"
            /\ user_progress' = upd.tbl
            /\ req' = [req EXCEPT ![p] = in]
            /\ pc' = [pc EXCEPT ![p] = IF upd.rowCount = 0 THEN "insert" ELSE "saved"]
            /\ UNCHANGED <<envVars, tabVars, matchVars, nano, now, study_sets, study_items,
                           memVars, lsVars,
                           obsVars, learnVars, writeVars>>

\* no row was updated: the request's INSERT statement runs; a rejection is caught
SaveInsertStep(p) ==
    LET ins == InsertProgress(user_progress, study_sets, req[p], now)
    IN  /\ pc[p] = "insert"
        /\ user_progress' = ins.tbl
        /\ pc' = [pc EXCEPT ![p] = IF ins.ok THEN "saved" ELSE ins.why]
        /\ UNCHANGED <<envVars, tabVars, matchVars, nano, now, study_sets, study_items,
                       memVars, lsVars,
                       obsVars, req, learnVars, writeVars>>

\* the request returns userProgress and the next one may come in
SaveReturn(p) ==
    /\ pc[p] \in {"saved", "fk", "unique"}
    /\ pc' = [pc EXCEPT ![p] = "idle"]
    /\ req' = [req EXCEPT ![p] = NoRequest]
    /\ UNCHANGED <<envVars, tabVars, matchVars, nano, now, dbVars, memVars, lsVars, obsVars,
                   learnVars, writeVars>>

\* the database backend serving two requests at a time
InitRace == Init /\ hasDatabase

NextRace ==
    \/ CreateDirect
    \/ \E p \in Procs : SaveUpdateStep(p)
    \/ \E p \in Procs : SaveInsertStep(p)
    \/ \E p \in Procs : SaveReturn(p)

SpecRace == InitRace /\ [][NextRace]_vars

(* ------------------------ Learn mode (LearnView) ---------------------- *)
\* the study sets a Learn session is opened on: 1..MaxItems items with distinct ids
StudyItemPool == <<I1, I2, I3>>
LearnSets == {SubSeq(StudyItemPool, 1, n) : n \in 1..MaxItems}
\* studySet.id of the set the view shows
LearnSetId == nanoid(1)

\* studySet.items.map(item => ({...item, knowledgeLevel: 0, nextReview: Date.now(),
\* lastReviewed: null})); NoTime stands for the null of lastReviewed
LearnItems(its, t) ==
    [i \in 1..Len(its) |->
        [id |-> its[i].id, term |-> its[i].term, definition |-> its[i].definition,
         knowledgeLevel |-> 0, nextReview |-> t, lastReviewed |-> NoTime]]

\* the Learn clock counts minutes: every duration of the view is a multiple of it
ClockUnit == 1000 * 60
Millis(ms) == ms \div ClockUnit

\* const intervals = [...], written in milliseconds, for levels 0..4
intervals ==
    <<Millis(1000 * 60), Millis(1000 * 60 * 60), Millis(1000 * 60 * 60 * 24),
      Millis(1000 * 60 * 60 * 24 * 3), Millis(1000 * 60 * 60 * 24 * 7)>>

Min(a, b) == IF a <= b THEN a ELSE b
Max(a, b) == IF a >= b THEN a ELSE b

\* a variant that leaves the level alone after a wrong answer
newLevelKeep(level, isCorrect) ==
    IF isCorrect THEN Min(4, level + 1) ELSE Max(0, level)

\* updateItemKnowledge: Math.min(4, level + 1) or Math.max(0, level - 1)
newLevel(level, isCorrect) ==
    IF isCorrect THEN Min(4, level + 1) ELSE Max(0, level - 1)

\* a variant that takes the interval of the level the item had
nextReviewOld(t, level, lvl) == t + intervals[level + 1]

\* updateItemKnowledge: const nextReview = now + intervals[newLevel]
nextReview(t, level, lvl) == t + intervals[lvl + 1]

\* updateItemKnowledge: the item after the answer was graded
updateItemKnowledge(item, isCorrect, t) ==
    LET lvl == newLevel(item.knowledgeLevel, isCorrect)
    IN  [item EXCEPT !.knowledgeLevel = lvl,
                     !.nextReview = nextReview(t, item.knowledgeLevel, lvl),
                     !.lastReviewed = t]

\* Array.prototype.sort((a, b) => a.nextReview - b.nextReview): stable, ascending
RECURSIVE SortByNextReview(_)
SortByNextReview(s) ==
    IF s = << >> THEN << >>
    ELSE LET rest == SortByNextReview(Tail(s))
             k == Cardinality({i \in 1..Len(rest) : rest[i].nextReview < Head(s).nextReview})
         IN  SubSeq(rest, 1, k) \o <<Head(s)>> \o SubSeq(rest, k + 1, Len(rest))

\* a variant without the sort: the due items in list order
dueItemsUnsorted(its, t) == SelectSeq(its, LAMBDA item : item.nextReview <= t)

\* items.filter(item => item.nextReview <= now).sort(...)
dueItems(its, t) == SortByNextReview(SelectSeq(its, LAMBDA item : item.nextReview <= t))

\* items.findIndex(item => item.id === id): zero-based, -1 when there is none
findIndex(its, id) ==
    IF \E i \in 1..Len(its) : its[i].id = id
    THEN (CHOOSE i \in 1..Len(its) :
              its[i].id = id /\ \A j \in 1..(i - 1) : its[j].id # id) - 1
    ELSE -1

\* saveProgress: the body of POST /api/learning-modes/learn
saveProgress(its) ==
    [studySetId |-> LearnSetId, mode |-> "learn",
     itemsStudied |-> Len(SelectSeq(its, LAMBDA item : item.lastReviewed # NoTime)),
     correctAnswers |-> Len(SelectSeq(its, LAMBDA item : item.knowledgeLevel >= 2)),
     incorrectAnswers |->
         Len(SelectSeq(its, LAMBDA item :
                 item.knowledgeLevel < 2 /\ item.lastReviewed # NoTime)),
     completedSessions |-> 1]

\* the effect with dependencies [stage, items]: find the next item to review
NextItemEffect ==
    LET due == dueItems(items, now)
    IN  /\ effectPending
        /\ effectPending' = FALSE
        /\ IF stage # "term"
           THEN UNCHANGED <<currentIndex, isSessionComplete, posted, review>>
           ELSE /\ review' = [review EXCEPT
                                 !.due = {due[i].nextReview : i \in 1..Len(due)}]
                /\ IF Len(due) > 0
                   THEN /\ currentIndex' = findIndex(items, due[1].id)
                        /\ UNCHANGED <<isSessionComplete, posted>>
                   ELSE /\ isSessionComplete' = TRUE
                        /\ posted' = saveProgress(items)
                        /\ UNCHANGED currentIndex
        /\ UNCHANGED <<storeVars, matchVars, now, raceVars, writeVars, items, stage, feedback,
                       userInput>>

\* handleNext in the term and definition stages: show the definition, then the quiz
HandleNextShow ==
    /\ ~effectPending /\ ~isSessionComplete
    /\ stage \in {"term", "definition"}
    /\ stage' = IF stage = "term" THEN "definition" ELSE "quiz"
    /\ effectPending' = TRUE
    /\ UNCHANGED <<storeVars, matchVars, now, raceVars, writeVars, items, currentIndex, feedback,
                   userInput, isSessionComplete, posted, review>>

\* the texts typed for an item: its definition, or a text without it
LearnTexts(item) == {item.definition, "x"}

\* userInput.toLowerCase().trim().includes(definition.toLowerCase().trim().substring(0, 20))
\* on the texts of the model (lower case, trimmed, shorter than 20 characters)
includesStart(text, definition) == text = definition

\* typing into the text area of the quiz stage (disabled once the answer is graded)
TypeAnswer ==
    /\ ~effectPending /\ ~isSessionComplete
    /\ stage = "quiz" /\ feedback = Null
    /\ \E text \in LearnTexts(items[currentIndex + 1]) : userInput' = text
    /\ UNCHANGED <<storeVars, matchVars, now, raceVars, writeVars, items, currentIndex, stage,
                   feedback, isSessionComplete, effectPending, posted, review>>

\* checkAnswer (the Check button, disabled while the text is blank): the typed text
\* contains the start of the definition, or it does not
CheckAnswer ==
    LET isCorrect == includesStart(userInput, items[currentIndex + 1].definition)
    IN  /\ ~effectPending /\ ~isSessionComplete
        /\ stage = "quiz" /\ feedback = Null
        /\ userInput # ""
        /\ feedback' = IF isCorrect THEN "correct" ELSE "incorrect"
        /\ UNCHANGED <<storeVars, matchVars, now, raceVars, writeVars, items, currentIndex, stage,
                       userInput, isSessionComplete, effectPending, posted, review>>

\* a variant that renders the Continue button throughout the quiz stage
ContinueShownAlways == TRUE

\* the quiz stage renders the Continue button in place of Check once feedback !== null
ContinueShown == feedback # Null

\* handleNext in the quiz stage (the Continue button): updateItemKnowledge, then the
\* term stage again
HandleNextContinue ==
    LET isCorrect == feedback = "correct"
        old == items[currentIndex + 1]
        new == updateItemKnowledge(old, isCorrect, now)
    IN  /\ ~effectPending /\ ~isSessionComplete
        /\ stage = "quiz" /\ ContinueShown
        /\ review.n < MaxReviews
        /\ items' = [items EXCEPT ![currentIndex + 1] = new]
        /\ stage' = "term"
        /\ userInput' = ""
        /\ feedback' = Null
        /\ effectPending' = TRUE
        /\ review' = [review EXCEPT
                         !.n = @ + 1,
                         !.streak = IF isCorrect /\ @ >= 0 THEN @ + 1 ELSE -1,
                         !.level = old.knowledgeLevel,
                         !.correct = isCorrect,
                         !.newLevel = new.knowledgeLevel,
                         !.delay = new.nextReview - now]
        /\ UNCHANGED <<storeVars, matchVars, now, raceVars, writeVars, currentIndex,
                       isSessionComplete, posted>>

\* resetSession (the Reset and Start New Session buttons)
ResetSession ==
    /\ ~effectPending
    /\ items' = LearnItems(items, now)
    /\ currentIndex' = 0
    /\ stage' = "term"
    /\ userInput' = ""
    /\ feedback' = Null
    /\ isSessionComplete' = FALSE
    /\ effectPending' = TRUE
    /\ review' = [NoReview EXCEPT !.n = review.n]
    /\ UNCHANGED <<storeVars, matchVars, now, raceVars, writeVars, posted>>

\* time passes until some item falls due: the next Date.now() the view reads
TimePasses ==
    /\ \E i \in 1..Len(items) :
           /\ items[i].nextReview > now
           /\ now' = items[i].nextReview
    /\ UNCHANGED <<storeVars, matchVars, raceVars, learnVars, writeVars>>

\* the view is mounted on a study set; its first effect is scheduled
InitLearn ==
    /\ InitStore /\ hasDatabase
    /\ now = 0
    /\ pc = [p \in Procs |-> "idle"]
    /\ req = [p \in Procs |-> NoRequest]
    /\ \E its \in LearnSets : items = LearnItems(its, now)
    /\ currentIndex = 0
    /\ stage = "term"
    /\ feedback = Null
    /\ userInput = ""
    /\ isSessionComplete = FALSE
    /\ effectPending = TRUE
    /\ posted = NoRequest
    /\ review = NoReview
    /\ writeIndex = 0
    /\ checkResult = ResNull
    /\ completedItems = EmptyMap
    /\ InitMatchIdle

NextLearn ==
    \/ NextItemEffect
    \/ HandleNextShow
    \/ TypeAnswer
    \/ CheckAnswer
    \/ HandleNextContinue
    \/ ResetSession
    \/ TimePasses

SpecLearn == InitLearn /\ [][NextLearn]_vars

(* ------------------------- claims: study sets ------------------------- *)
\* what getStudySet(id) may return in the current state
GetOutcomes(id) ==
    IF hasDatabase
    THEN {getStudySetDb(study_sets, id, rows) : rows \in RowOrders(study_items, id)}
    ELSE {getStudySetLocal(id).res}

\* two optional values agree (undefined and null both mean absent)
SameOpt(a, b) == a = b \/ ({a, b} \subseteq {Undef, Null})

\* entity e equals input x in title, description, items, sourceType and sourceName
EqualsInput(e, x) ==
    /\ e.title = x.title
    /\ e.description = Prop(x, "description")
    /\ e.items = x.items
    /\ e.sourceType = Prop(x, "sourceType")
    /\ SameOpt(e.sourceName, Prop(x, "sourceName"))

\* C1: round trip: as long as no other write follows createStudySet(X), getStudySet
\* with the id of the returned entity yields an entity equal to X in title,
\* description, items, sourceType and sourceName
C1_RoundTrip ==
    lastCreated.valid =>
        \A r \in GetOutcomes(lastCreated.ret.id) :
            r.kind = "entity" /\ EqualsInput(r.v, lastCreated.data)

\* C2: the ids of the entities createStudySet returned are pairwise different, and
\* the returned entity carries the input items in the input order
C2_FreshIdsInOrder ==
    /\ \A i, j \in 1..Len(returned) : returned[i] = returned[j] => i = j
    /\ lastCreated.valid => lastCreated.ret.items = lastCreated.data.items

\* C3: once deleteStudySet(id) has been called and no set was created since,
\* getStudySet(id) returns null
C3_DeletedStaysAbsent ==
    deleted # Undef => \A r \in GetOutcomes(deleted) : r.kind = "null"

\* C4: updateStudySet on an id no stored study set has returns null (it does not
\* throw) and writes no study set
C4_UpdateAbsent ==
    (last.op = "updateStudySet" /\ last.absent) =>
        (last.res.kind = "null" /\ ~last.wrote)

\* C4 witness: an update of an absent id was answered while another set is stored
C4_Witness ==
    /\ last.op = "updateStudySet" /\ last.absent /\ last.res.kind = "null"
    /\ IF hasDatabase THEN DOMAIN study_sets # {} ELSE StoredEntities # {}

\* the items stored for set id: rows of study_items in physical order, or the
\* items of the mirror's entity
StoredItems(rows, sets, id) ==
    IF hasDatabase
    THEN LET sel == SelectSeq(rows, LAMBDA r : r.study_set_id = id)
         IN  [i \in 1..Len(sel) |-> Item(sel[i].id, sel[i].term, sel[i].definition)]
    ELSE IF id \in DOMAIN sets THEN sets[id].items ELSE << >>

\* the entity stored under id before a call
Existing(id) ==
    IF hasDatabase THEN getStudySetDb(study_sets, id, << >>) ELSE getStudySetLocal(id).res

\* C10: an updateStudySet call on an existing set returns the entity in which every
\* provided field (title, description, sourceType, sourceName) has the provided
\* value, also when it is the empty string, every omitted field has its previous
\* value and updatedAt is the time of the call; and when items is provided the
\* stored item collection is the provided sequence
C10_UpdateMerges ==
    [][(updates' = updates + 1 /\ Existing(last'.id).kind = "entity") =>
          LET d == last'.data
              old == Existing(last'.id).v
              r == last'.res
          IN  /\ r.kind = "entity"
              /\ \A f \in {"title", "description", "sourceType", "sourceName"} :
                     r.v[f] = IF f \in d.has THEN d[f] ELSE old[f]
              /\ r.v.updatedAt = now
              /\ "items" \in d.has =>
                     StoredItems(study_items', memSets', last'.id) = d.items]_vars

(* --------------------------- claims: progress ------------------------- *)
\* what getUserProgress(studySetId, mode) returns in the current state
ProgressOutcome(sid, mode) ==
    IF hasDatabase THEN getUserProgressDb(sid, mode) ELSE getUserProgressLocal(sid, mode).res

\* the counters of a progress record
CountersOf(e) ==
    [itemsStudied |-> e.itemsStudied, correctAnswers |-> e.correctAnswers,
     incorrectAnswers |-> e.incorrectAnswers, completedSessions |-> e.completedSessions]

\* C5: after two successive saveUserProgress calls with the same (studySetId, mode)
\* and different counters, whatever studySetId the caller passed, getUserProgress
\* for the pair returns a record whose counters are those of the second call
C5_LatestCountersRetrievable ==
    (saves.prev # NoCounters /\ saves.prev # saves.cur) =>
        LET r == ProgressOutcome(saves.key[1], saves.key[2])
        IN  r.kind = "entity" /\ CountersOf(r.v) = saves.cur

\* C6: of two concurrent saveUserProgressDb calls for the same (studySetId, mode) of
\* a stored study set, neither has its INSERT rejected by UNIQUE(study_set_id, mode)
C6_NoUniqueRejection ==
    \A p \in Procs : pc[p] # "unique"

(* -------------------------- claims: Learn mode ------------------------ *)
\* the review delays the specification names for levels 0..4, in clock units
Minutes(n) == Millis(n * 60 * 1000)
Hours(n) == Minutes(60 * n)
Days(n) == Hours(24 * n)
delay == <<Minutes(1), Hours(1), Days(1), Days(3), Days(7)>>

\* every item's level is one of 0..4
LevelsInRange(its) == \A i \in 1..Len(its) : its[i].knowledgeLevel \in 0..4

\* C7: continuing from the quiz stage gives the current item the level
\* min(4, level + 1) after a correct answer and max(0, level - 1) otherwise,
\* nextReview = now + delay[newLevel] and lastReviewed = now; every item's level
\* is within 0..4 in every reachable state
C7_Transition ==
    /\ LevelsInRange(items)
    /\ [][/\ LevelsInRange(items')
          /\ (stage = "quiz" /\ stage' = "term" /\ review'.n = review.n + 1) =>
                LET old == items[currentIndex + 1]
                    new == items'[currentIndex + 1]
                    lvl == IF feedback = "correct"
                           THEN Min(4, old.knowledgeLevel + 1)
                           ELSE Max(0, old.knowledgeLevel - 1)
                IN  /\ new.knowledgeLevel = lvl
                    /\ new.nextReview = now + delay[lvl + 1]
                    /\ new.lastReviewed = now]_vars

\* C7 witness: a correct answer on an item at level 4 was continued from
C7_Witness ==
    /\ review.n > 0 /\ review.level = 4 /\ review.correct /\ review.newLevel = 4
    /\ stage = "term"

Successes(k) == Len(items) = 1 /\ review.streak = k

\* C9 as stated: on a one-item set starting at level 0, the first, second and third
\* success in a row move the level 0 to 1 to 2 to 3 and apply the review delays
\* 1 minute, 1 hour and 1 day
C9_DelaysAsStated ==
    \A k \in 1..3 :
        Successes(k) =>
            /\ review.level = k - 1 /\ review.newLevel = k
            /\ review.delay = <<Minutes(1), Hours(1), Days(1)>>[k]

\* C9: on a one-item set starting at level 0, the first, second and third success
\* in a row move the level 0 to 1 to 2 to 3 and apply the review delays 1 hour,
\* 1 day and 3 days (the delay of the level reached)
C9_DelaysOfLevelReached ==
    \A k \in 1..3 :
        Successes(k) =>
            /\ review.level = k - 1 /\ review.newLevel = k
            /\ items[1].knowledgeLevel = k
            /\ review.delay = <<Hours(1), Days(1), Days(3)>>[k]

\* C9 witness: three successes in a row on a one-item set
C9_Witness == Successes(3) /\ items[1].knowledgeLevel = 3

(* ------------------- claims: reads, routing, failures ----------------- *)
\* C11: getStudySet on an existing set returns its items in the order in which they
\* were inserted, whatever order the item query returns its rows in
C11_ItemsInInsertionOrder ==
    lastCreated.valid =>
        \A r \in GetOutcomes(lastCreated.key) :
            r.kind = "entity" => r.v.items = lastCreated.data.items

\* C12: the database implementation serves every persistence call exactly when
\* DATABASE_URL was present at module load (hasDatabase), whatever the value is at
\* the time of the call: a call served by one backend leaves the other's state alone
C12_StaticSelection ==
    /\ hasDatabase = envUrl
    /\ [][/\ hasDatabase' = hasDatabase
          /\ hasDatabase => UNCHANGED <<memVars, lsVars>>
          /\ ~hasDatabase => UNCHANGED dbVars]_vars

\* C12 witness: a set was stored by the backend chosen at load after the
\* configuration value had changed
C12_Witness ==
    /\ envUrl # hasDatabase
    /\ last.op = "createStudySet"
    /\ IF hasDatabase THEN DOMAIN study_sets # {} /\ memSets = EmptyMap
       ELSE memSets # EmptyMap /\ DOMAIN study_sets = {}

\* C13: when a storage write of createStudySet fails (a rejected SQL insert, a
\* throwing localStorage.setItem), createStudySet throws instead of returning an
\* entity
C13_CreateFailurePropagates ==
    (last.op = "createStudySet" /\ last.failed) => last.kind = "throw"

\* C14: when the storage write of saveUserProgress fails, saveUserProgress returns
\* no UserProgress value and the progress route does not answer with a success
\* status
C14_SaveFailureSurfaced ==
    (last.op = "saveUserProgress" /\ last.failed) =>
        (last.kind # "entity" /\ last.status \notin 200..299)

\* a study set is stored under the id: a study_sets row, a mirror entry or a
\* study-set:<id> entry of the browser store
StoredUnder(id) ==
    IF hasDatabase THEN id \in DOMAIN study_sets
    ELSE id \in DOMAIN memSets \/ (isClient /\ id \in DOMAIN lsSets)

\* C15: getStudySet and the GET route report absent / 404 only when no study set
\* is stored under the id; a failing storage call on a stored set is a failure
\* (5xx), not absent / 404
C15_NotFoundOnlyWhenAbsent ==
    (last.op = "getStudySet" /\ StoredUnder(last.id)) =>
        (last.found \/ last.status \in 500..599)

\* C16: POST /api/study-sets with a body the schema rejects (missing or empty
\* title, missing or empty items, an item with an empty term or definition) is
\* answered with a 4xx status
C16_ValidationIs4xx ==
    (last.op = "postStudySet" /\ ~last.accepted) => last.status \in 400..499

\* the orders in which Object.keys(localStorage) may list the keys of a set
KeyOrders(S) ==
    LET n == Cardinality(S)
    IN  {f \in [1..n -> S] : \A i, j \in 1..n : f[i] = f[j] => i = j}

\* getAllStudySets of the fallback store on a fresh mirror, the keys listed in the
\* given order: Array.from(memoryStore.studySets.values())
getAllStudySetsFresh(order) ==
    LET m == LoadSets(order, EmptyMap, << >>).sets
    IN  {m[k] : k \in DOMAIN m}

\* C17: fallback store in a client context: once createStudySet has returned,
\* getAllStudySets on a fresh mirror over the same browser store returns a list
\* that contains the created set
C17_CreatedSurvivesReload ==
    (~hasDatabase /\ isClient /\ lastCreated.valid) =>
        \A order \in KeyOrders(DOMAIN lsSets) :
            lastCreated.ret \in getAllStudySetsFresh(order)

(* ------------------- calls to the language model ---------------------- *)
\* the three distractors generateObject resolves with for a quiz item
AiDistractors == <<"w1", "w2", "w3">>

\* [...allOptions].sort(() => Math.random() - 0.5): any order of the four options
Shuffles == {f \in [1..4 -> 1..4] : \A i, j \in 1..4 : f[i] = f[j] => i = j}

\* generateObject for one quiz item: it rejects, or resolves and the options are shuffled
QuizAi ==
    {[ok |-> FALSE, shuffle |-> <<1, 2, 3, 4>>]}
        \cup {[ok |-> TRUE, shuffle |-> f] : f \in Shuffles}

answerLabels == <<"A", "B", "C", "D">>

\* item.options && item.options.length === 4 && item.correctAnswer
HasOptions(item) ==
    /\ "options" \in DOMAIN item
    /\ "correctAnswer" \in DOMAIN item
    /\ Len(item.options) = 4
    /\ ~Falsy(item.correctAnswer)

\* the question generateQuiz builds for one item (its id, a fresh nanoid(), is left out)
QuizQuestion(item, ai) ==
    IF HasOptions(item)
    THEN [question |-> item.term, options |-> item.options, answer |-> item.correctAnswer]
    ELSE IF ai.ok
    THEN LET allOptions == <<item.definition>> \o AiDistractors
             shuffledOptions == [i \in 1..4 |-> allOptions[ai.shuffle[i]]]
             correctIndex ==
                 CHOOSE i \in 1..4 :
                     /\ shuffledOptions[i] = item.definition
                     /\ \A j \in 1..(i - 1) : shuffledOptions[j] # item.definition
         IN  [question |-> item.term, options |-> shuffledOptions,
              answer |-> answerLabels[correctIndex]]
    ELSE [question |-> item.term,
          options |-> <<item.definition, "Incorrect option 1", "Incorrect option 2",
                        "Incorrect option 3">>,
          answer |-> "A"]

\* studySet.items.slice(0, 8)
Slice8(its) == SubSeq(its, 1, IF Len(its) < 8 THEN Len(its) ELSE 8)

\* generateQuiz: the response to what getStudySet returned and what the model did
generateQuiz(res, ai) ==
    IF res.kind = "throw" THEN [status |-> 500]
    ELSE IF res.kind = "null" THEN [status |-> 404]
    ELSE LET its == Slice8(res.v.items)
         IN  [status |-> 200,
              items |-> its,
              rejected |-> [i \in 1..Len(its) |-> ~HasOptions(its[i]) /\ ~ai[i].ok],
              questions |-> [i \in 1..Len(its) |-> QuizQuestion(its[i], ai[i])]]

\* the outcomes of the model calls for the items of what getStudySet returned
QuizAiFor(res) ==
    IF res.kind = "entity" THEN [1..Len(Slice8(res.v.items)) -> QuizAi]
    ELSE {<< >>}

\* POST /api/learning-modes/quiz with action generateQuiz
GenerateQuiz ==
    \E id \in ArgIds :
        /\ IF UseDatabase
           THEN /\ \E rows \in RowOrders(study_items, id) :
                       LET res == getStudySetDb(study_sets, id, rows)
                       IN  \E ai \in QuizAiFor(res) :
                               last' = [op |-> "generateQuiz"] @@ generateQuiz(res, ai)
                /\ UNCHANGED memVars
           ELSE LET g == getStudySetLocal(id)
                IN  /\ memSets' = g.sets
                    /\ memIds' = g.ids
                    /\ memProgress' = g.progress
                    /\ \E ai \in QuizAiFor(g.res) :
                           last' = [op |-> "generateQuiz"] @@ generateQuiz(g.res, ai)
        /\ UNCHANGED <<envVars, tabVars, matchVars, nano, now, dbVars, lsVars, lastCreated,
                       returned, deleted,
                       saves, updates, raceVars, learnVars, writeVars>>

\* POST /api/generate-content: the status of the response
generateContent(file, aiOk) ==
    IF Falsy(file) THEN 400
    ELSE IF ~aiOk THEN 500
    ELSE 200

\* POST /api/generate-content with or without a file; generateObject rejects or resolves
GenerateContent ==
    \E file \in {Undef, "pdf"}, aiOk \in BOOLEAN :
        /\ last' = [op |-> "generateContent",
                    aiFailed |-> ~Falsy(file) /\ ~aiOk,
                    status |-> generateContent(file, aiOk),
                    body |-> IF generateContent(file, aiOk) = 200 THEN "flashcards"
                             ELSE "error"]
        /\ UNCHANGED <<envVars, tabVars, matchVars, nano, now, dbVars, memVars, lsVars,
                       lastCreated, returned,
                       deleted, saves, updates, raceVars, learnVars, writeVars>>

(* ------------------------ Write mode (WriteView) ---------------------- *)
\* studySet.items of the set the view shows
WriteItems == SubSeq(StudyItemPool, 1, MaxItems)

\* what the user types: blanks, the first definition in another case, the second one
UserInputs == {"  ", "Hello ", "acid"}

\* String.prototype.toLowerCase on the strings of the model
toLowerCase(s) == IF s = "Hello " THEN "hello " ELSE s

\* String.prototype.trim on the strings of the model
trim(s) ==
    CASE s = "  " -> ""
      [] s = "Hello " -> "Hello"
      [] s = "hello " -> "hello"
      [] OTHER -> s

\* generateObject for a written answer: it rejects, or resolves with a grading
GradeAi ==
    {[ok |-> FALSE, object |-> [isCorrect |-> FALSE, similarityScore |-> 0, feedback |-> ""]]}
        \cup {[ok |-> TRUE,
               object |-> [isCorrect |-> b, similarityScore |-> IF b THEN 1 ELSE 0,
                           feedback |-> "ai"]] : b \in BOOLEAN}

\* the grading of the catch block: the trimmed lower-case strings are equal
simpleComparison(text, definition) ==
    LET isCorrect == trim(toLowerCase(text)) = trim(toLowerCase(definition))
    IN  [isCorrect |-> isCorrect,
         similarityScore |-> IF isCorrect THEN 1 ELSE 0,
         feedback |-> IF isCorrect THEN "Your answer matches the definition!"
                      ELSE "Your answer doesn't match the definition."]

\* Object.values(completedItems).filter(item => item.isCorrect === b).length
CountCompleted(done, b) == Cardinality({k \in DOMAIN done : done[k].isCorrect = b})

\* the body saveProgress(correct, incorrect) posts to /api/learning-modes/write
writeProgressBody(done, isCorrect) ==
    [studySetId |-> LearnSetId, mode |-> "write",
     itemsStudied |-> Cardinality(DOMAIN done),
     correctAnswers |-> CountCompleted(done, TRUE) + (IF isCorrect THEN 1 ELSE 0),
     incorrectAnswers |-> CountCompleted(done, FALSE) + (IF isCorrect THEN 0 ELSE 1),
     completedSessions |-> 1]

\* checkAnswer of the Write view (the Check Answer button is rendered while checkResult
\* is null): graded by the model, or by the comparison when it fails
WriteCheckAnswer ==
    \E text \in UserInputs, ai \in GradeAi :
        LET currentItem == WriteItems[writeIndex + 1]
            graded == IF ai.ok THEN ai.object
                      ELSE simpleComparison(text, currentItem.definition)
        IN  /\ checkResult = ResNull
            /\ IF trim(text) = ""
               THEN /\ last' = [op |-> "checkAnswer", checked |-> FALSE]
                    /\ UNCHANGED writeVars
               ELSE /\ checkResult' = ResEntity(graded)
                    /\ completedItems' =
                           Put(completedItems, currentItem.id,
                               [isCorrect |-> graded.isCorrect, userAnswer |-> text])
                    /\ last' = [op |-> "checkAnswer", checked |-> TRUE,
                                aiFailed |-> ~ai.ok, userInput |-> text,
                                posted |-> IF ai.ok
                                           THEN writeProgressBody(completedItems,
                                                                  graded.isCorrect)
                                           ELSE NoRequest]
                    /\ UNCHANGED writeIndex
            /\ UNCHANGED <<envVars, tabVars, matchVars, nano, now, dbVars, memVars, lsVars,
                           lastCreated,
                           returned, deleted, saves, updates, raceVars, learnVars>>

\* nextItem of the Write view
WriteNextItem ==
    LET n == Len(WriteItems)
        incorrectItems ==
            SelectSeq(WriteItems, LAMBDA item : item.id \in DOMAIN completedItems
                                                /\ ~completedItems[item.id].isCorrect)
        nextIndex ==
            IF Cardinality(DOMAIN completedItems) = n /\ Len(incorrectItems) > 0
            THEN findIndex(WriteItems, incorrectItems[1].id)
            ELSE (writeIndex + 1) % n
    IN  /\ writeIndex' = nextIndex
        /\ checkResult' = ResNull
        /\ last' = [op |-> "nextItem"]
        /\ UNCHANGED <<envVars, tabVars, matchVars, nano, now, dbVars, memVars, lsVars,
                       lastCreated, returned,
                       deleted, saves, updates, raceVars, learnVars, completedItems>>

\* resetSession of the Write view
WriteResetSession ==
    /\ writeIndex' = 0
    /\ checkResult' = ResNull
    /\ completedItems' = EmptyMap
    /\ last' = [op |-> "resetSession"]
    /\ UNCHANGED <<envVars, tabVars, matchVars, nano, now, dbVars, memVars, lsVars,
                   lastCreated, returned,
                   deleted, saves, updates, raceVars, learnVars>>

\* study sets are created, quizzes and flashcards generated, written answers graded
NextAi ==
    \/ CreateDirect
    \/ GenerateQuiz
    \/ GenerateContent
    \/ WriteCheckAnswer
    \/ WriteNextItem
    \/ WriteResetSession

SpecAi == Init /\ [][NextAi]_vars

(* ------------------ claims: calls to the language model --------------- *)
\* the index the answer label of a question designates
LabelIndex(label) == CHOOSE i \in 1..4 : answerLabels[i] = label

\* quiz generation: a question whose model call failed has four options and its
\* answer label designates the item's definition
C18_QuizFallback ==
    (last.op = "generateQuiz" /\ last.status = 200) =>
        \A i \in 1..Len(last.questions) :
            last.rejected[i] =>
                /\ Len(last.questions[i].options) = 4
                /\ last.questions[i].answer \in {"A", "B", "C", "D"}
                /\ last.questions[i].options[LabelIndex(last.questions[i].answer)]
                       = last.items[i].definition

\* Write mode: a grading whose model call failed is the comparison of the trimmed
\* lower-case strings, and the item is recorded as completed with it
C18_WriteFallback ==
    (last.op = "checkAnswer" /\ last.checked /\ last.aiFailed) =>
        LET item == WriteItems[writeIndex + 1]
            same == trim(toLowerCase(last.userInput)) = trim(toLowerCase(item.definition))
        IN  /\ checkResult.kind = "entity"
            /\ checkResult.v.isCorrect = same
            /\ item.id \in DOMAIN completedItems
            /\ completedItems[item.id].isCorrect = same

\* flashcard generation: a request whose model call failed gets a success response
C18_ContentFallback ==
    (last.op = "generateContent" /\ last.aiFailed) => last.status \in 200..299

\* C18: a failure of the call to the language model never fails the whole operation:
\* a quiz question with four options whose label designates the definition, a
\* deterministic grading recorded as completed in Write mode, and a degraded result
\* rather than an error response in flashcard generation
C18_AiFailureNeverFails ==
    C18_QuizFallback /\ C18_WriteFallback /\ C18_ContentFallback

(* ------------------------ start of the server ------------------------- *)
\* setupDatabase: the CREATE TABLE statements run, or query() throws and the catch
\* block returns { success: false, error }
setupDatabase == [success |-> hasDatabase /\ ~dbDown]

\* initDb: setupDatabase() when process.env.DATABASE_URL is set
initDb == IF envUrl THEN setupDatabase ELSE [success |-> FALSE]

\* initDb() at server startup (layout) and at the head of a route (ensureDbInitialized);
\* the tables it creates are the ones of the model, which start empty
InitDb ==
    /\ last' = [op |-> "initDb", success |-> initDb.success]
    /\ UNCHANGED <<envVars, tabVars, matchVars, nano, now, dbVars, memVars, lsVars,
                   lastCreated, returned,
                   deleted, saves, updates, raceVars, learnVars, writeVars>>

\* the server starts with the database reachable or not, and serves study sets
NextStartup ==
    \/ InitDb
    \/ ToggleDb
    \/ CreateDirect
    \/ PostStudySet
    \/ GetStudySet

SpecStartup == Init /\ [][NextStartup]_vars

(* --------------------- claims: start of the server -------------------- *)
\* C19: with a connection string configured, a createStudySet that follows a failed
\* database initialisation (setupDatabase returned success: false) is served by the
\* local fallback store: it returns the entity, which the fallback store then holds
C19_FallbackAfterInitFailure ==
    [][(/\ last.op = "initDb"
        /\ ~last.success
        /\ envUrl
        /\ last'.op = "createStudySet")
           => (/\ last'.kind = "entity"
               /\ last'.id \in DOMAIN memSets'
               /\ UNCHANGED dbVars)]_vars

(* ------------------------ updates over the API ------------------------ *)
\* study sets are created and then updated through the PUT route
NextPut ==
    \/ CreateDirect
    \/ PutStudySet
    \/ GetStudySet
    \/ Tick

SpecPut == Init /\ [][NextPut]_vars

\* C20: id and createdAt are immutable: an updateStudySet call with any partial object
\* leaves the id and the createdAt of every entity getStudySet returns as they were,
\* in both backends
C20_IdAndCreatedAtImmutable ==
    [][last'.op = "updateStudySet" =>
          \A k \in ArgIds :
              \A r1 \in GetOutcomes(k) :
                  \A r2 \in GetOutcomes(k)' :
                      (r1.kind = "entity" /\ r2.kind = "entity") =>
                          (r2.v.id = r1.v.id /\ r2.v.createdAt = r1.v.createdAt)]_vars

(* ------------------- claims: identity and ownership ------------------- *)
\* the ids of the items of a study set
ItemIdsOf(its) == {its[i].id : i \in 1..Len(its)}

\* the study sets of a map of the fallback store have pairwise different ids and
\* pairwise disjoint items
Exclusive(sets) ==
    \A k1, k2 \in DOMAIN sets :
        k1 # k2 =>
            /\ sets[k1].id # sets[k2].id
            /\ ItemIdsOf(sets[k1].items) \cap ItemIdsOf(sets[k2].items) = {}

\* C21: in every reachable state no two stored study sets have the same id and no
\* item (by id) belongs to more than one stored study set
C21_UniqueIdsExclusiveItems ==
    IF hasDatabase
    THEN \A i, j \in 1..Len(study_items) :
             study_items[i].id = study_items[j].id => i = j
    ELSE /\ Exclusive(memSets)
         /\ Exclusive([k \in {x \in DOMAIN lsSets : lsSets[x].ok} |-> JSONparse(lsSets[k])])

(* --------------------- claims: Learn stage machine -------------------- *)
\* the stage steps of one cycle
StageCycle == {<<"term", "definition">>, <<"definition", "quiz">>, <<"quiz", "term">>}

\* the step is the quiz to term step of a cycle: exactly the current item changes,
\* after a graded answer
GradedUpdate ==
    /\ feedback \in {"correct", "incorrect"}
    /\ items'[currentIndex + 1] # items[currentIndex + 1]
    /\ items'[currentIndex + 1].knowledgeLevel =
           newLevel(items[currentIndex + 1].knowledgeLevel, feedback = "correct")
    /\ \A i \in 1..Len(items) : i # currentIndex + 1 => items'[i] = items[i]

\* entering the term stage clears the typed text and the feedback
ClearedOnTerm == (stage # "term" /\ stage' = "term") => (userInput' = "" /\ feedback' = Null)

\* C22 as stated: the stage moves only term to definition to quiz to term; the items
\* change only on the quiz to term step, where exactly the current item is updated
\* once, after the answer has been graded; the typed text and the feedback are
\* cleared on entering term
C22_StageMachine ==
    [][/\ stage' # stage => <<stage, stage'>> \in StageCycle
       /\ items' # items => (stage = "quiz" /\ stage' = "term")
       /\ (stage = "quiz" /\ stage' = "term") => GradedUpdate
       /\ ClearedOnTerm]_vars

\* the step is resetSession: the session starts over on the term stage with every
\* item at level 0
SessionReset ==
    /\ items' = LearnItems(items, now)
    /\ stage' = "term"
    /\ currentIndex' = 0
    /\ ~isSessionComplete'

\* C22 amended: apart from the steps of resetSession, which lead to the term stage
\* from any stage without a graded answer, the stage moves only term to definition
\* to quiz to term, the items change only on the quiz to term step, where exactly
\* the current item is updated once after the answer has been graded; the typed
\* text and the feedback are cleared on every entry to term
C22_StageMachineApartFromReset ==
    [][/\ SessionReset \/ (stage' # stage => <<stage, stage'>> \in StageCycle)
       /\ SessionReset \/ (items' # items => (stage = "quiz" /\ stage' = "term"))
       /\ SessionReset \/ ((stage = "quiz" /\ stage' = "term") => GradedUpdate)
       /\ ClearedOnTerm]_vars

\* C22 witness: a graded answer was continued from and the next cycle has reached
\* the quiz stage with a text typed
C22_Witness ==
    /\ review.n >= 1
    /\ stage = "quiz"
    /\ userInput # ""
    /\ \E i \in 1..Len(items) : items[i].knowledgeLevel = 1

(* ---------------------- two tabs, one browser store ------------------- *)
\* the user turns to the other tab: its memoryStore is the one the next calls use
SwitchTab ==
    /\ ~hasDatabase /\ isClient
    /\ memSets' = otherTab.sets
    /\ memIds' = otherTab.ids
    /\ memProgress' = otherTab.progress
    /\ otherTab' = [sets |-> memSets, ids |-> memIds, progress |-> memProgress]
    /\ UNCHANGED <<envVars, nano, now, dbVars, lsVars, obsVars, raceVars, learnVars,
                   writeVars, matchVars>>

\* two tabs of the fallback store, each with a fresh mirror
InitTabs == Init /\ ~hasDatabase /\ isClient

\* study sets are created, read and deleted in either tab
NextTabs ==
    \/ CreateDirect
    \/ GetStudySet
    \/ DeleteStudySet
    \/ SwitchTab

SpecTabs == InitTabs /\ [][NextTabs]_vars

\* the ids of the index entry study-sets:all
IndexIds == IF lsAll.ok THEN {JSONparse(lsAll)[i] : i \in 1..Len(JSONparse(lsAll))} ELSE {}

\* C23: with two tabs over one browser store no operation detects or rejects a
\* conflicting write of the index: createStudySet always returns its entity and
\* writes the id list of its own tab plus the new id as study-sets:all, whatever
\* the entry held, and a deleteStudySet that removes an entry writes its tab's list
C23_LastWriteWins ==
    [][/\ nano' # nano =>
             /\ last'.op = "createStudySet" /\ last'.kind = "entity"
             /\ lsAll' = JSONstringify(PushNew(memIds, nanoid(nano')))
       /\ (last'.op = "deleteStudySet" /\ lsSets' # lsSets) =>
             /\ last'.existed
             /\ lsAll' = JSONstringify(memIds')]_vars

\* C23 witness: after a create in one tab and a create in the other the index lacks
\* the id of a set that is still stored under study-set:<id>
C23_Witness ==
    /\ last.op = "createStudySet"
    /\ otherTab.ids # << >>
    /\ \E id \in DOMAIN lsSets : lsSets[id].ok /\ id \notin IndexIds

(* ------------------------ Match mode (MatchView) ---------------------- *)
\* study items whose ids contain a hyphen
H1 == Item("s-1", "uno", "one")
H2 == Item("s-2", "dos", "two")

\* the study sets a Match game is opened on: 1..MaxItems items of the pool, or the
\* two items with hyphens in their ids
MatchSets == LearnSets \cup {<<H1, H2>>}

\* studySet.items.slice(0, 10): the pairs put on the board
BoardLimit == 10
limitedItems(its) == SubSeq(its, 1, IF Len(its) < BoardLimit THEN Len(its) ELSE BoardLimit)

\* the tile ids `${item.id}-term` and `${item.id}-def`, kept as <<item.id, suffix>>
TileIds(its) ==
    {<<limitedItems(its)[i].id, suffix>> : i \in 1..Len(limitedItems(its)),
                                         suffix \in {"term", "def"}}

\* tileId.split("-")[0]: the tile id up to its first hyphen
splitHead(tile) ==
    CASE tile[1] \in {"s-1", "s-2"} -> "s"
      [] OTHER -> tile[1]

\* the type of a tile, "term" or "definition"
typeOf(tile) == IF tile[2] = "term" THEN "term" ELSE "definition"

\* createShuffledItems: every tile unmatched and unselected (no handler reads the
\* position of a tile, so the order of the shuffle is left out)
createShuffledItems(its) ==
    [tile \in TileIds(its) |-> [matched |-> FALSE, selected |-> FALSE]]

\* handleItemClick: term and definition from the same item
isMatch(first, second) ==
    splitHead(first) = splitHead(second) /\ typeOf(first) # typeOf(second)

\* the setTimeout callback: items.map(...) over the items of the render that
\* scheduled it
timeoutItems(cb) ==
    [tile \in DOMAIN cb.items |->
        IF tile \in {cb.first, cb.second}
        THEN [cb.items[tile] EXCEPT !.selected = FALSE]
        ELSE cb.items[tile]]

\* saveProgress: the body of POST /api/learning-modes/match
matchProgressBody(pairs) ==
    [studySetId |-> LearnSetId, mode |-> "match", itemsStudied |-> Len(matchSet),
     completedSessions |-> 1, correctAnswers |-> pairs, incorrectAnswers |-> 0]

\* handleItemClick on an unmatched tile while none is selected: first selection
ClickFirst ==
    \E id \in DOMAIN matchItems :
        /\ ~gameComplete /\ ~matchItems[id].matched
        /\ selectedItem = NoTile
        /\ matchItems' = [matchItems EXCEPT ![id].selected = TRUE]
        /\ selectedItem' = id
        /\ UNCHANGED <<storeVars, now, raceVars, learnVars, writeVars, matchSet,
                       matchedPairs, timeLeft, gameComplete, gameWon, timeouts,
                       matchPosted>>

\* handleItemClick, second selection, the tiles match: both are marked matched and
\* the win-condition effect runs on the new matchedPairs
ClickMatch ==
    \E id \in DOMAIN matchItems :
        /\ ~gameComplete /\ ~matchItems[id].matched
        /\ selectedItem # NoTile /\ selectedItem # id
        /\ isMatch(selectedItem, id)
        /\ matchItems' = [tile \in DOMAIN matchItems |->
                             IF tile \in {selectedItem, id}
                             THEN [matched |-> TRUE, selected |-> FALSE]
                             ELSE matchItems[tile]]
        /\ matchedPairs' = matchedPairs + 1
        /\ selectedItem' = NoTile
        /\ IF matchedPairs + 1 = Len(matchSet)
           THEN /\ gameComplete' = TRUE
                /\ gameWon' = TRUE
                /\ matchPosted' = matchProgressBody(matchedPairs + 1)
           ELSE UNCHANGED <<gameComplete, gameWon, matchPosted>>
        /\ UNCHANGED <<storeVars, now, raceVars, learnVars, writeVars, matchSet, timeLeft,
                       timeouts>>

\* handleItemClick, second selection, no match: the tile is shown selected and the
\* reset is scheduled with the items and the selection of this render
ClickMismatch ==
    \E id \in DOMAIN matchItems :
        /\ ~gameComplete /\ ~matchItems[id].matched
        /\ selectedItem # NoTile /\ selectedItem # id
        /\ ~isMatch(selectedItem, id)
        /\ Cardinality(timeouts) < MaxTimeouts
        /\ matchItems' = [matchItems EXCEPT ![id].selected = TRUE]
        /\ timeouts' = timeouts \cup
                           {[items |-> matchItems, first |-> selectedItem, second |-> id]}
        /\ UNCHANGED <<storeVars, now, raceVars, learnVars, writeVars, matchSet,
                       selectedItem, matchedPairs, timeLeft, gameComplete, gameWon,
                       matchPosted>>

\* a setTimeout callback runs, a second after the click that scheduled it
MismatchReset ==
    \E cb \in timeouts :
        /\ matchItems' = timeoutItems(cb)
        /\ selectedItem' = NoTile
        /\ timeouts' = timeouts \ {cb}
        /\ UNCHANGED <<storeVars, now, raceVars, learnVars, writeVars, matchSet,
                       matchedPairs, timeLeft, gameComplete, gameWon, matchPosted>>

\* the setInterval callback of the timer effect, every second of a running game
TimerTick ==
    /\ ~gameComplete
    /\ IF timeLeft <= 1
       THEN timeLeft' = 0 /\ gameComplete' = TRUE
       ELSE timeLeft' = timeLeft - 1 /\ UNCHANGED gameComplete
    /\ UNCHANGED <<storeVars, now, raceVars, learnVars, writeVars, matchSet, matchItems,
                   selectedItem, matchedPairs, gameWon, timeouts, matchPosted>>

\* restartGame (the Restart and Play Again buttons)
RestartGame ==
    /\ matchItems' = createShuffledItems(matchSet)
    /\ selectedItem' = NoTile
    /\ matchedPairs' = 0
    /\ timeLeft' = GameSeconds
    /\ gameComplete' = FALSE
    /\ gameWon' = FALSE
    /\ UNCHANGED <<storeVars, now, raceVars, learnVars, writeVars, matchSet, timeouts,
                   matchPosted>>

\* the view is mounted on a study set and the initialising effect has run
InitMatch ==
    /\ InitStore /\ hasDatabase
    /\ now = 0
    /\ InitIdle
    /\ \E its \in MatchSets : matchSet = its /\ matchItems = createShuffledItems(its)
    /\ selectedItem = NoTile
    /\ matchedPairs = 0
    /\ timeLeft = GameSeconds
    /\ gameComplete = FALSE
    /\ gameWon = FALSE
    /\ timeouts = {}
    /\ matchPosted = NoRequest

NextMatch ==
    \/ ClickFirst
    \/ ClickMatch
    \/ ClickMismatch
    \/ MismatchReset
    \/ TimerTick
    \/ RestartGame

SpecMatch == InitMatch /\ [][NextMatch]_vars

\* the ids of the items whose pair of tiles is on the board
BoardItemIds == ItemIdsOf(limitedItems(matchSet))

\* the pairs on the board whose two tiles are both flagged matched
MatchedPairIds ==
    {id \in BoardItemIds : matchItems[<<id, "term">>].matched
                           /\ matchItems[<<id, "def">>].matched}

\* C24: under every interleaving of tile clicks with the mismatch-reset timeout,
\* matchedPairs equals the number of pairs whose two tiles are both flagged matched
\* and never exceeds the number of pairs on the board, and a pair once matched stays
\* matched until the game is restarted.
C24_CounterConsistency ==
    /\ [](/\ matchedPairs = Cardinality(MatchedPairIds)
          /\ matchedPairs <= Cardinality(BoardItemIds))
    /\ [][RestartGame \/ MatchedPairIds \subseteq MatchedPairIds']_vars

\* C25: once all pairs on the board are matched before the timer reaches 0 the game
\* is complete and won and progress has been saved; and whenever the game is marked
\* won, every pair on the board is matched.
C25_Completion ==
    /\ (MatchedPairIds = BoardItemIds /\ timeLeft > 0)
           => (gameComplete /\ gameWon /\ matchPosted # NoRequest)
    /\ gameWon => MatchedPairIds = BoardItemIds

(* -------------------- Write mode progress counters -------------------- *)
\* C26: every progress record checkAnswer posts has itemsStudied = correctAnswers +
\* incorrectAnswers, and each of the three equals the corresponding count over the
\* distinct items answered so far in the session (an item answered again is counted
\* once).
C26_WriteCounters ==
    (last.op = "checkAnswer" /\ last.checked /\ last.posted # NoRequest) =>
        /\ last.posted.itemsStudied
               = last.posted.correctAnswers + last.posted.incorrectAnswers
        /\ last.posted.itemsStudied = Cardinality(DOMAIN completedItems)
        /\ last.posted.correctAnswers = CountCompleted(completedItems, TRUE)
        /\ last.posted.incorrectAnswers = CountCompleted(completedItems, FALSE)

(* ------------------ fallback store: index and mirror ------------------ *)
\* one tab of a browser: creates, updates, deletes and reads, and page reloads
NextIndex ==
    \/ CreateDirect
    \/ UpdateStudySet
    \/ DeleteStudySet
    \/ GetStudySet
    \/ Reload

SpecIndex == InitReload /\ [][NextIndex]_vars

\* the ids that have a study-set:<id> entry in the browser store
EntryIds == {k \in DOMAIN lsSets : lsSets[k].ok}

\* C27: single tab, client context: after every completed operation, from any
\* persisted contents and a fresh mirror, the id list under study-sets:all and the
\* in-memory studySetIds both equal exactly the set of ids that have a
\* study-set:<id> entry.
C27_IndexInvariant ==
    last.op # "reload" =>
        /\ IndexIds = EntryIds
        /\ {memIds[i] : i \in 1..Len(memIds)} = EntryIds

\* one tab of a browser whose store runs out of quota and recovers: study sets are
\* written and read back (the clock stands still)
NextMirror ==
    \/ CreateDirect
    \/ UpdateStudySet
    \/ GetStudySet
    \/ ToggleQuota

SpecMirror == InitReload /\ [][NextMirror]_vars

\* what the next getStudySet returns for the id of the last updateStudySet
NextGetStudySet == getStudySetLocal(last.id).res

\* what the next getUserProgress returns for the key of the last saveUserProgress
NextGetUserProgress == getUserProgressLocal(saves.key[1], saves.key[2]).res

\* C28: client context: after updateStudySet or saveUserProgress has returned entity
\* E, the next getStudySet / getUserProgress for the same key returns E, even when
\* the browser-store write inside the operation threw: rehydration never replaces a
\* newer in-memory value with an older persisted one.
C28_MirrorCoherence ==
    /\ (last.op = "updateStudySet" /\ last.res.kind = "entity")
           => NextGetStudySet = last.res
    /\ last.op = "saveUserProgress"
           => NextGetUserProgress
                  = saveUserProgressReturn(
                        ProgressInput(saves.key[1], saves.key[2], saves.cur), now)

(* ------------------ database backend: failed writes ------------------- *)
\* C29: database backend: when createStudySetDb throws, or updateStudySetDb reports
\* failure, because an item insert failed, the database holds no trace of the failed
\* operation: no study_sets row without its full item list after a failed create, the
\* previous item collection intact after a failed update.
C29_WriteAtomicity ==
    [][/\ (UseDatabase /\ nano' # nano /\ last'.op = "createStudySet"
              /\ last'.kind = "throw")
           => (study_sets' = study_sets /\ study_items' = study_items)
       /\ (UseDatabase /\ updates' # updates /\ last'.op = "updateStudySet"
              /\ last'.res.kind = "null")
           => study_items' = study_items]_vars

(* --------------- the two backends given the same calls ---------------- *)
\* Two deployments receive the same sequence of calls: one with a database (its
\* state is the tables), one without (its state is the mirror and the browser store).

\* createStudySet(data) in both deployments
BothCreate ==
    /\ nano < MaxNano
    /\ \E data \in DirectInputs :
           LET id == nanoid(nano + 1)
               d == createStudySetDb(data, id, now)
               l == createStudySetLocal(data, id, now)
           IN  /\ nano' = nano + 1
               /\ study_sets' = d.sets
               /\ study_items' = d.items
               /\ memSets' = l.sets
               /\ memIds' = l.ids
               /\ lsSets' = l.lsSets
               /\ lsAll' = l.lsAll
               /\ last' = [op |-> "createStudySet", id |-> id]
               /\ UNCHANGED <<envVars, tabVars, matchVars, now, user_progress, memProgress,
                              lsProgress, lastCreated, returned, deleted, saves, updates,
                              raceVars, learnVars, writeVars>>

\* saveUserProgress(progress) in both deployments
BothSave ==
    \E key \in ProgressKeys, c \in CounterInputs :
        LET p == ProgressInput(key[1], key[2], c)
            l == saveUserProgressLocal(p, now)
        IN  /\ user_progress' = saveUserProgressDb(p, now)
            /\ memSets' = l.sets
            /\ memIds' = l.ids
            /\ memProgress' = l.progress
            /\ lsProgress' = l.lsProgress
            /\ last' = [op |-> "saveUserProgress", id |-> key[1]]
            /\ UNCHANGED <<envVars, tabVars, matchVars, nano, now, study_sets, study_items,
                           lsSets, lsAll, lastCreated, returned, deleted, saves, updates,
                           raceVars, learnVars, writeVars>>

\* deleteStudySet(id) in both deployments
BothDelete ==
    \E id \in ArgIds :
        LET d == deleteStudySetDb(id)
            l == deleteStudySetLocal(id)
        IN  /\ study_sets' = d.sets
            /\ study_items' = d.items
            /\ user_progress' = d.progress
            /\ memSets' = l.sets
            /\ memIds' = l.ids
            /\ memProgress' = l.progress
            /\ lsSets' = l.lsSets
            /\ lsAll' = l.lsAll
            /\ last' = [op |-> "deleteStudySet", id |-> id]
            /\ UNCHANGED <<envVars, tabVars, matchVars, nano, now, lsProgress, lastCreated,
                           returned, deleted, saves, updates, raceVars, learnVars,
                           writeVars>>

\* getUserProgress(studySetId, mode) in both deployments
BothGet ==
    \E key \in ProgressKeys :
        LET l == getUserProgressLocal(key[1], key[2])
        IN  /\ memSets' = l.sets
            /\ memIds' = l.ids
            /\ memProgress' = l.progress
            /\ last' = [op |-> "getUserProgress", id |-> key[1]]
            /\ UNCHANGED <<envVars, tabVars, matchVars, nano, now, dbVars, lsVars,
                           lastCreated, returned, deleted, saves, updates, raceVars,
                           learnVars, writeVars>>

\* the database of the first deployment is reachable throughout
InitBoth == Init /\ ~dbDown

NextBoth ==
    \/ BothCreate
    \/ BothSave
    \/ BothDelete
    \/ BothGet

SpecBoth == InitBoth /\ [][NextBoth]_vars

\* the study set exists in both deployments and both return the same saved record
BothHold(sid, mode) ==
    /\ sid \in DOMAIN study_sets
    /\ sid \in DOMAIN initializeFromLocalStorage.sets
    /\ getUserProgressDb(sid, mode).kind = "entity"
    /\ getUserProgressDb(sid, mode) = getUserProgressLocal(sid, mode).res

\* C30: after createStudySet, saveUserProgress(id, mode) and deleteStudySet(id), the
\* database backend and the fallback backend return the same result for
\* getUserProgress(id, mode): both absent or both the saved record.
C30_BackendsAgreeAfterDelete ==
    [][\A key \in ProgressKeys :
           (BothHold(key[1], key[2]) /\ last'.op = "deleteStudySet" /\ last'.id = key[1])
               => getUserProgressDb(key[1], key[2])'
                      = getUserProgressLocal(key[1], key[2]).res']_vars

====
